---- MODULE Spec2Model ----
(***************************************************************************)
(* Model of the note-graph engine of mcp-obsidian: GraphIndex (build, link *)
(* resolution, PageRank), the process-wide singleton get_graph_index and   *)
(* the index-based traversal of the get_note_graph tool.                   *)
(*                                                                         *)
(* Python strings are sequences of one-character strings.  Floats are      *)
(* fixed-point integers: the float x is the integer x * Scale, rounded     *)
(* down after every division.                                              *)
(***************************************************************************)
EXTENDS Integers, Sequences, FiniteSets, TLC

VARIABLES
    vault,          \* path -> what file_getter(path) does (the note store)
    graph_index,    \* module global _graph_index: 0 is None, else an object id
    heap,           \* object id -> GraphIndex instance
    last,           \* record of the last completed call (observation only)
    result,         \* what the last traversal returned
    pc,             \* per thread: position inside get_graph_index / build
    loc             \* per thread: locals of the call in progress

vars == <<vault, graph_index, heap, last, result, pc, loc>>

(***************************************************************************)
(* Strings                                                                 *)
(***************************************************************************)

\* str.lower() on one character
LowerChar(c) ==
    CASE c = "A" -> "a"
      [] c = "B" -> "b"
      [] c = "C" -> "c"
      [] c = "D" -> "d"
      [] c = "P" -> "p"
      [] c = "U" -> "u"
      [] OTHER -> c

\* str.lower()
Lower(s) == [i \in 1..Len(s) |-> LowerChar(s[i])]

\* str.endswith(suf)
EndsWith(s, suf) ==
    /\ Len(s) >= Len(suf)
    /\ SubSeq(s, Len(s) - Len(suf) + 1, Len(s)) = suf

DotMd == <<".", "m", "d">>

\* s[:-3] when s ends with '.md', else s
StripMd(s) == IF EndsWith(s, DotMd) THEN SubSeq(s, 1, Len(s) - 3) ELSE s

RECURSIVE LStrip(_)
LStrip(s) == IF s # <<>> /\ Head(s) = " " THEN LStrip(Tail(s)) ELSE s

RECURSIVE RStrip(_)
RStrip(s) ==
    IF s # <<>> /\ s[Len(s)] = " " THEN RStrip(SubSeq(s, 1, Len(s) - 1)) ELSE s

\* str.strip()
Strip(s) == LStrip(RStrip(s))

\* str.replace(a, b) for one-character a and b
Replace(s, a, b) == [i \in 1..Len(s) |-> IF s[i] = a THEN b ELSE s[i]]

\* s.split(sep)[0]
RECURSIVE SplitFirst(_, _)
SplitFirst(s, sep) ==
    IF s = <<>> \/ Head(s) = sep THEN <<>>
    ELSE <<Head(s)>> \o SplitFirst(Tail(s), sep)

\* the components of a path: split on '/', empty and '.' components dropped
RECURSIVE PathParts(_, _)
PathParts(s, cur) ==
    LET flush == IF cur = <<>> \/ cur = <<".">> THEN <<>> ELSE <<cur>>
    IN  IF s = <<>> THEN flush
        ELSE IF Head(s) = "/" THEN flush \o PathParts(Tail(s), <<>>)
        ELSE PathParts(Tail(s), Append(cur, Head(s)))

\* pathlib.Path(s).name
PathName(s) ==
    LET parts == PathParts(s, <<>>)
    IN  IF parts = <<>> THEN <<>> ELSE parts[Len(parts)]

\* a value that is not a str (an int in a JSON list, None from a getter)
NonStr == <<"<non-str>">>

\* isinstance(x, str)
IsStr(x) == x # NonStr

\* fnmatch.fnmatch(name, pat) on POSIX: '*' any run of characters (also
\* '/'), '?' any one character, every other character itself
RECURSIVE FnMatchAt(_, _, _, _)
FnMatchAt(name, i, pat, j) ==
    IF j > Len(pat) THEN i > Len(name)
    ELSE IF pat[j] = "*"
         THEN \E k \in i..(Len(name) + 1) : FnMatchAt(name, k, pat, j + 1)
    ELSE IF i > Len(name) THEN FALSE
    ELSE /\ (pat[j] = "?" \/ pat[j] = name[i])
         /\ FnMatchAt(name, i + 1, pat, j + 1)

fnmatch(name, pat) == FnMatchAt(name, 1, pat, 1)

(***************************************************************************)
(* Dictionaries                                                            *)
(***************************************************************************)

EmptyMap == [k \in {} |-> {}]

\* d[k] = v
Put(d, k, v) == (k :> v) @@ d

\* the dictionary with the keys S and the values f[k], built key by key
RECURSIVE DictOver(_, _)
DictOver(S, f) ==
    IF S = {} THEN EmptyMap
    ELSE LET k == CHOOSE x \in S : TRUE
         IN  (k :> f[k]) @@ DictOver(S \ {k}, f)

\* the set of the members of a list
Range(seq) == {seq[i] : i \in 1..Len(seq)}

\* d.get(k, default)
Get(d, k, default) == IF k \in DOMAIN d THEN d[k] ELSE default

(***************************************************************************)
(* LinkExtractor                                                           *)
(***************************************************************************)

\* The post-processing of one WIKILINK_PATTERN match: raw is group(1), a
\* non-empty run of characters other than ']' and '|'.
LinkTarget(raw) ==
    LET t == Strip(raw)
    IN  IF \E i \in 1..Len(t) : t[i] = "#" THEN Strip(SplitFirst(t, "#"))
        ELSE Strip(t)

\* LinkExtractor.extract_wikilinks(content): the targets in text order.  A
\* content is given by its matches, content.links being the group(1) texts.
extract_wikilinks(content) ==
    [i \in 1..Len(content.links) |-> LinkTarget(content.links[i])]

(***************************************************************************)
(* GraphIndex                                                              *)
(***************************************************************************)

\* Optional[str] None
None == <<"<None>">>

\* truthiness of an Optional[str]
Truthy(x) == x # None /\ x # <<>>

\* GraphIndex.__init__
NewGraphIndex ==
    [adjacency |-> EmptyMap, reverse_adj |-> EmptyMap,
     pagerank_scores |-> EmptyMap, metadata_cache |-> EmptyMap,
     exclude_paths |-> <<>>, all_files |-> <<>>, built |-> FALSE]

\* GraphIndex.set_exclude_paths
set_exclude_paths(ix, patterns) == [ix EXCEPT !.exclude_paths = patterns]

\* GraphIndex._should_index: "true", "false", or "raise" when fnmatch is
\* handed a pattern that is not a string (TypeError)
RECURSIVE ShouldIndexFrom(_, _, _)
ShouldIndexFrom(patterns, i, path) ==
    IF i > Len(patterns) THEN "true"
    ELSE IF ~IsStr(patterns[i]) THEN "raise"
    ELSE IF fnmatch(path, patterns[i]) THEN "false"
    ELSE ShouldIndexFrom(patterns, i + 1, path)

should_index(ix, path) == ShouldIndexFrom(ix.exclude_paths, 1, path)

\* the md_files list comprehension of build, evaluated left to right; an
\* exception of _should_index leaves the comprehension
RECURSIVE MdFilesFrom(_, _, _, _)
MdFilesFrom(ix, all_files, i, acc) ==
    IF i > Len(all_files) THEN [raised |-> FALSE, files |-> acc]
    ELSE LET f == all_files[i]
         IN  IF ~(IsStr(f) /\ EndsWith(f, DotMd))
             THEN MdFilesFrom(ix, all_files, i + 1, acc)
             ELSE LET s == should_index(ix, f)
                  IN  IF s = "raise" THEN [raised |-> TRUE, files |-> acc]
                      ELSE IF s = "true"
                           THEN MdFilesFrom(ix, all_files, i + 1, Append(acc, f))
                      ELSE MdFilesFrom(ix, all_files, i + 1, acc)

MdFiles(ix, all_files) == MdFilesFrom(ix, all_files, 1, <<>>)

\* one iteration of the loop of _build_name_to_path_map
NameKeys(name_to_path, file_path) ==
    LET normalized == StripMd(Lower(file_path))
        filename   == PathName(normalized)
        d1 == Put(name_to_path, normalized, file_path)
        d2 == Put(d1, filename, file_path)
        d3 == Put(d2, Replace(filename, " ", "_"), file_path)
    IN  Put(d3, Replace(filename, "_", " "), file_path)

\* GraphIndex._build_name_to_path_map
RECURSIVE NameMapFrom(_, _, _)
NameMapFrom(files, i, acc) ==
    IF i > Len(files) THEN acc
    ELSE NameMapFrom(files, i + 1, NameKeys(acc, files[i]))

build_name_to_path_map(files) == NameMapFrom(files, 1, EmptyMap)

\* resolve_link that compares the target as written, without lower()
resolve_link_CaseSensitive(target, name_to_path) ==
    IF target = <<>> THEN None
    ELSE LET normalized == StripMd(Strip(target))
             filename   == PathName(normalized)
             v1 == Replace(filename, " ", "_")
             v2 == Replace(filename, "_", " ")
         IN  IF normalized \in DOMAIN name_to_path THEN name_to_path[normalized]
             ELSE IF filename \in DOMAIN name_to_path THEN name_to_path[filename]
             ELSE IF v1 \in DOMAIN name_to_path THEN name_to_path[v1]
             ELSE IF v2 \in DOMAIN name_to_path THEN name_to_path[v2]
             ELSE None

\* GraphIndex._resolve_link
resolve_link(target, name_to_path) ==
    IF target = <<>> THEN None
    ELSE LET normalized == StripMd(Strip(Lower(target)))
             filename   == PathName(normalized)
             v1 == Replace(filename, " ", "_")
             v2 == Replace(filename, "_", " ")
         IN  IF normalized \in DOMAIN name_to_path THEN name_to_path[normalized]
             ELSE IF filename \in DOMAIN name_to_path THEN name_to_path[filename]
             ELSE IF v1 \in DOMAIN name_to_path THEN name_to_path[v1]
             ELSE IF v2 \in DOMAIN name_to_path THEN name_to_path[v2]
             ELSE None

\* A date string is given by its form and its day: "ymd" is 2024-01-DD,
\* "iso" is 2024-01-DDT10:30:00, "isoz" is 2024-01-DDT10:30:00Z, "slash" is
\* 2024/01/DD and "text" is a string with no date in it.
DateStr(form, day) == <<form, day>>

\* a front-matter value: a string, a list of strings or a number
StrVal(v)  == <<"str", v>>
ListVal(v) == <<"list", v>>
IntVal(n)  == <<"int", n>>

\* GraphIndex._clean_date: the YYYY-MM-DD part when the value has one, else
\* the value itself; None for a missing or empty value
clean_date(date_value) ==
    IF ~Truthy(date_value) THEN None
    ELSE IF date_value[1] \in {"ymd", "iso", "isoz"}
         THEN DateStr("ymd", date_value[2])
    ELSE date_value

\* the value of the first of the keys that the front matter has, else None
RECURSIVE FirstKey(_, _, _)
FirstKey(frontmatter, keys, i) ==
    IF i > Len(keys) THEN None
    ELSE IF keys[i] \in DOMAIN frontmatter
         THEN clean_date(frontmatter[keys[i]][2])
    ELSE FirstKey(frontmatter, keys, i + 1)

\* GraphIndex._extract_metadata: the front matter, the dates taken from it,
\* and the tags of the front matter and the inline tags, deduplicated
extract_metadata(file_path, content) ==
    LET frontmatter == IF content.fm_tags # <<>>
                       THEN Put(content.fm, "tags", ListVal(content.fm_tags))
                       ELSE content.fm
    IN  [tags |-> {content.fm_tags[i] : i \in 1..Len(content.fm_tags)}
                  \cup {content.inline_tags[i] :
                            i \in 1..Len(content.inline_tags)},
         frontmatter |-> frontmatter,
         created |-> FirstKey(frontmatter,
                              <<"created", "date", "dateCreated">>, 1),
         modified |-> FirstKey(frontmatter,
                               <<"modified", "updated", "dateModified">>, 1)]

\* AddLink without the reverse-adjacency update
AddLink_NoBacklink(ix, file_path, target, name_to_path) ==
    LET target_path == resolve_link(target, name_to_path)
    IN  IF Truthy(target_path) /\ target_path # file_path
        THEN [ix EXCEPT !.adjacency[file_path] = @ \cup {target_path}]
        ELSE ix

\* the body of "for target, link_text, _ in wikilinks" in build
AddLink(ix, file_path, target, name_to_path) ==
    LET target_path == resolve_link(target, name_to_path)
    IN  IF Truthy(target_path) /\ target_path # file_path
        THEN LET adj == [ix.adjacency EXCEPT
                            ![file_path] = @ \cup {target_path}]
                 rev0 == IF target_path \notin DOMAIN ix.reverse_adj
                         THEN Put(ix.reverse_adj, target_path, {})
                         ELSE ix.reverse_adj
                 rev == [rev0 EXCEPT ![target_path] = @ \cup {file_path}]
             IN  [ix EXCEPT !.adjacency = adj, !.reverse_adj = rev]
        ELSE ix

RECURSIVE AddLinksFrom(_, _, _, _, _)
AddLinksFrom(ix, file_path, wikilinks, i, name_to_path) ==
    IF i > Len(wikilinks) THEN ix
    ELSE AddLinksFrom(AddLink(ix, file_path, wikilinks[i], name_to_path),
                      file_path, wikilinks, i + 1, name_to_path)

\* ProcessFile without the test "target_path != file_path": a link of a
\* note to itself becomes an edge
ProcessFile_SelfLinks(ix, file_path, content, name_to_path) ==
    IF content.kind # "str" THEN ix
    ELSE LET a == IF file_path \notin DOMAIN ix.adjacency
                  THEN Put(ix.adjacency, file_path, {}) ELSE ix.adjacency
             r == IF file_path \notin DOMAIN ix.reverse_adj
                  THEN Put(ix.reverse_adj, file_path, {}) ELSE ix.reverse_adj
             m == Put(ix.metadata_cache, file_path,
                      extract_metadata(file_path, content))
             ix1 == [ix EXCEPT !.adjacency = a, !.reverse_adj = r,
                               !.metadata_cache = m]
             ix2 == AddLinksFrom(ix1, file_path, extract_wikilinks(content), 1,
                                 name_to_path)
             wikilinks == extract_wikilinks(content)
         IN  IF \E i \in 1..Len(wikilinks) :
                    resolve_link(wikilinks[i], name_to_path) = file_path
             THEN [ix2 EXCEPT !.adjacency[file_path] = @ \cup {file_path},
                              !.reverse_adj[file_path] = @ \cup {file_path}]
             ELSE ix2

\* the body of "for file_path in md_files" in build; content is what
\* file_getter(file_path) does: returns a str, returns something else, or
\* raises an Exception (caught, the file is skipped)
ProcessFile(ix, file_path, content, name_to_path) ==
    IF content.kind # "str" THEN ix
    ELSE LET a == IF file_path \notin DOMAIN ix.adjacency
                  THEN Put(ix.adjacency, file_path, {}) ELSE ix.adjacency
             r == IF file_path \notin DOMAIN ix.reverse_adj
                  THEN Put(ix.reverse_adj, file_path, {}) ELSE ix.reverse_adj
             m == Put(ix.metadata_cache, file_path,
                      extract_metadata(file_path, content))
             ix1 == [ix EXCEPT !.adjacency = a, !.reverse_adj = r,
                               !.metadata_cache = m]
         IN  AddLinksFrom(ix1, file_path, extract_wikilinks(content), 1,
                          name_to_path)

(***************************************************************************)
(* PageRank.  A score is a fixed-point integer, 1.0 being Scale.           *)
(***************************************************************************)

Scale == 10^7

AlphaNum == 85      \* alpha = 0.85 = AlphaNum / AlphaDen
AlphaDen == 100
MaxIter  == 100     \* max_iter
TolInv   == 1000000 \* tol = 1e-6 = 1 / TolInv

RECURSIVE SetSum(_, _)
SetSum(f, S) ==
    IF S = {} THEN 0
    ELSE LET x == CHOOSE y \in S : TRUE IN f[x] + SetSum(f, S \ {x})

Abs(x) == IF x < 0 THEN -x ELSE x

\* Contribution without the division by the out-degree
Contribution_NoSplit(ix, scores, src) ==
    LET out_degree == Cardinality(Get(ix.adjacency, src, {}))
    IN  IF out_degree > 0 THEN Get(scores, src, 0) ELSE 0

\* the contribution scores.get(src, 0) / out_degree of one backlink
Contribution(ix, scores, src) ==
    LET out_degree == Cardinality(Get(ix.adjacency, src, {}))
    IN  IF out_degree > 0 THEN Get(scores, src, 0) \div out_degree ELSE 0

\* the body of "for node in nodes": the new score of one node, computed
\* from the scores of the previous iteration
NewScore(ix, scores, n, node) ==
    LET srcs == Get(ix.reverse_adj, node, {})
        rank_sum == SetSum([src \in srcs |-> Contribution(ix, scores, src)],
                           srcs)
    IN  ((AlphaDen - AlphaNum) * Scale) \div (AlphaDen * n)
        + (AlphaNum * rank_sum) \div AlphaDen

\* "for node in nodes" writing each new score into scores itself, so that
\* the nodes after it read it in the same iteration
RECURSIVE UpdateInPlace(_, _, _, _)
UpdateInPlace(ix, todo, scores, n) ==
    IF todo = {} THEN scores
    ELSE LET node == CHOOSE x \in todo : TRUE
         IN  UpdateInPlace(ix, todo \ {node},
                           [scores EXCEPT ![node] = NewScore(ix, scores, n, node)],
                           n)

\* the iteration with scores updated in place
RECURSIVE PagerankFrom_InPlace(_, _, _, _)
PagerankFrom_InPlace(ix, nodes, scores, iteration) ==
    IF iteration >= MaxIter THEN scores
    ELSE LET n == Cardinality(nodes)
             new_scores == UpdateInPlace(ix, nodes, scores, n)
             diff == SetSum([node \in nodes |->
                                Abs(new_scores[node] - scores[node])], nodes)
         IN  IF diff < Scale \div TolInv THEN new_scores
             ELSE PagerankFrom_InPlace(ix, nodes, new_scores, iteration + 1)

\* the loop "for iteration in range(max_iter)" from the given iteration on
RECURSIVE PagerankFrom(_, _, _, _)
PagerankFrom(ix, nodes, scores, iteration) ==
    IF iteration >= MaxIter THEN scores
    ELSE LET n == Cardinality(nodes)
             new_scores == DictOver(nodes, [node \in nodes |->
                                      NewScore(ix, scores, n, node)])
             diff == SetSum([node \in nodes |->
                                Abs(new_scores[node] - scores[node])], nodes)
         IN  IF diff < Scale \div TolInv THEN new_scores
             ELSE PagerankFrom(ix, nodes, new_scores, iteration + 1)

\* GraphIndex.compute_pagerank
compute_pagerank(ix) ==
    LET nodes == DOMAIN ix.adjacency
        n == Cardinality(nodes)
    IN  IF n = 0 THEN [ix EXCEPT !.pagerank_scores = EmptyMap]
        ELSE [ix EXCEPT !.pagerank_scores =
                  PagerankFrom(ix, nodes,
                               DictOver(nodes, [node \in nodes |-> Scale \div n]),
                               0)]

(***************************************************************************)
(* build                                                                   *)
(***************************************************************************)

\* ResetState that forgets to clear the two adjacency maps
ResetState_KeepAdjacency(ix, all_files) ==
    [ix EXCEPT !.pagerank_scores = EmptyMap, !.metadata_cache = EmptyMap,
               !.all_files = all_files]

\* "Reset state" of build
ResetState(ix, all_files) ==
    [ix EXCEPT !.adjacency = EmptyMap, !.reverse_adj = EmptyMap,
               !.pagerank_scores = EmptyMap, !.metadata_cache = EmptyMap,
               !.all_files = all_files]

\* the loop over md_files with "break" in place of "continue": the first
\* file that cannot be read ends the loop
RECURSIVE ProcessFilesFrom_StopOnError(_, _, _, _, _)
ProcessFilesFrom_StopOnError(ix, md_files, i, name_to_path, getter) ==
    IF i > Len(md_files) THEN ix
    ELSE IF getter[md_files[i]].kind # "str" THEN ix
    ELSE ProcessFilesFrom_StopOnError(
             ProcessFile(ix, md_files[i], getter[md_files[i]], name_to_path),
             md_files, i + 1, name_to_path, getter)

\* the loop "for file_path in md_files" from position i on; getter[p] is
\* what file_getter(p) does
RECURSIVE ProcessFilesFrom(_, _, _, _, _)
ProcessFilesFrom(ix, md_files, i, name_to_path, getter) ==
    IF i > Len(md_files) THEN ix
    ELSE ProcessFilesFrom(
             ProcessFile(ix, md_files[i], getter[md_files[i]], name_to_path),
             md_files, i + 1, name_to_path, getter)

\* the end of build: PageRank, then the index is marked built
FinishBuild(ix) == [compute_pagerank(ix) EXCEPT !.built = TRUE]

\* GraphIndex.build(all_files): the instance afterwards, and whether the
\* call raised
build(ix, all_files, getter) ==
    LET ix0 == ResetState(ix, all_files)
        md  == MdFiles(ix0, all_files)
    IN  IF md.raised THEN [ix |-> ix0, raised |-> TRUE]
        ELSE LET name_to_path == build_name_to_path_map(md.files)
                 ix1 == ProcessFilesFrom(ix0, md.files, 1, name_to_path, getter)
             IN  [ix |-> FinishBuild(ix1), raised |-> FALSE]

\* GraphIndex.get_backlinks, get_forward_links: the set that list() copies
get_backlinks(ix, path)     == Get(ix.reverse_adj, path, {})
get_forward_links(ix, path) == Get(ix.adjacency, path, {})

\* get_pagerank that gives an unknown path the uniform score 1/N
get_pagerank_Uniform(ix, path) ==
    Get(ix.pagerank_scores, path,
        IF DOMAIN ix.adjacency = {} THEN Scale
        ELSE Scale \div Cardinality(DOMAIN ix.adjacency))

\* GraphIndex.get_pagerank
get_pagerank(ix, path) == Get(ix.pagerank_scores, path, 0)

\* GraphIndex.get_metadata: the cached record itself, or a new empty dict
get_metadata(ix, path) == Get(ix.metadata_cache, path, EmptyMap)

\* GraphIndex.get_stats (without build_time)
get_stats(ix) ==
    LET total_edges == SetSum([k \in DOMAIN ix.adjacency |->
                                  Cardinality(ix.adjacency[k])],
                              DOMAIN ix.adjacency)
        n == Cardinality(DOMAIN ix.adjacency)
        m == Cardinality(DOMAIN ix.pagerank_scores)
    IN  [total_nodes |-> n,
         total_edges |-> total_edges,
         avg_out_degree |-> IF n # 0 THEN (total_edges * Scale) \div n ELSE 0,
         avg_pagerank |-> IF m # 0
                          THEN SetSum(ix.pagerank_scores,
                                      DOMAIN ix.pagerank_scores) \div m
                          ELSE 0,
         excluded_patterns |-> ix.exclude_paths]

(***************************************************************************)
(* GraphFilter                                                             *)
(***************************************************************************)

\* a FilterConfig with no filter set (create_filter_from_args then returns
\* None and the traversal runs without a GraphFilter)
NoFilter == [tags |-> <<>>, tags_match_all |-> FALSE,
             frontmatter_filters |-> EmptyMap,
             include_paths |-> <<>>, exclude_paths |-> <<>>,
             created_after |-> None, created_before |-> None,
             modified_after |-> None, modified_before |-> None]

\* has_filters that looks at the tag filter only
has_filters_TagsOnly(config) == config.tags # <<>>

\* FilterConfig.has_filters
has_filters(config) ==
    \/ config.tags # <<>>
    \/ DOMAIN config.frontmatter_filters # {}
    \/ config.include_paths # <<>>
    \/ config.exclude_paths # <<>>
    \/ Truthy(config.created_after)
    \/ Truthy(config.created_before)
    \/ Truthy(config.modified_after)
    \/ Truthy(config.modified_before)

RECURSIVE LStripHash(_)
LStripHash(t) == IF t # <<>> /\ Head(t) = "#" THEN LStripHash(Tail(t)) ELSE t

\* t.lstrip('#') without lower()
NormTag_CaseSensitive(t) == LStripHash(t)

\* t.lstrip('#').lower()
NormTag(t) == Lower(LStripHash(t))

\* fnmatch(path, pattern) or fnmatch(path, "*/" + pattern)
PathMatches(path, pattern) ==
    fnmatch(path, pattern) \/ fnmatch(path, <<"*", "/">> \o pattern)

\* _check_path that tests the include patterns first and accepts on a match
check_path_IncludeWins(config, path) ==
    IF \E i \in 1..Len(config.include_paths) :
           PathMatches(path, config.include_paths[i])
    THEN TRUE
    ELSE /\ config.include_paths = <<>>
         /\ ~\E i \in 1..Len(config.exclude_paths) :
                PathMatches(path, config.exclude_paths[i])

\* GraphFilter._check_path
check_path(config, path) ==
    /\ ~\E i \in 1..Len(config.exclude_paths) :
           PathMatches(path, config.exclude_paths[i])
    /\ \/ config.include_paths = <<>>
       \/ \E i \in 1..Len(config.include_paths) :
              PathMatches(path, config.include_paths[i])

\* GraphFilter._check_tags
check_tags(config, node_tags) ==
    LET filter_tags == {NormTag(config.tags[i]) : i \in 1..Len(config.tags)}
        node_tags_normalized == {NormTag(t) : t \in node_tags}
    IN  IF config.tags = <<>> THEN TRUE
        ELSE IF config.tags_match_all
             THEN \A tag \in filter_tags : tag \in node_tags_normalized
        ELSE \E tag \in filter_tags : tag \in node_tags_normalized

\* one iteration of the loop of _check_frontmatter: TRUE when the loop goes
\* on, FALSE when it returns False
FrontmatterKeyPasses(expected_value, actual_value) ==
    IF actual_value = None THEN FALSE
    ELSE IF expected_value[1] = "str" /\ actual_value[1] = "str"
         THEN Lower(expected_value[2]) = Lower(actual_value[2])
    ELSE IF actual_value[1] = "list"
         THEN \/ /\ expected_value[1] = "str"
                 /\ expected_value[2] \in Range(actual_value[2])
              \/ /\ expected_value[1] = "str"
                 /\ \E v \in Range(actual_value[2]) :
                        Lower(expected_value[2]) = Lower(v)
    ELSE expected_value = actual_value

\* GraphFilter._check_frontmatter
check_frontmatter(config, frontmatter) ==
    \A key \in DOMAIN config.frontmatter_filters :
        FrontmatterKeyPasses(config.frontmatter_filters[key],
                             Get(frontmatter, key, None))

\* the None that _parse_date returns in place of a datetime
NoDatetime == -1

\* GraphFilter._parse_date: a datetime as a number of half days, or
\* NoDatetime.  The forms "ymd" and "slash" are among DATE_FORMATS, "iso" is
\* too and keeps its time of day, "isoz" is parsed from its date part only.
parse_date(date_str) ==
    IF ~Truthy(date_str) THEN NoDatetime
    ELSE IF date_str[1] \in {"ymd", "slash", "isoz"} THEN 2 * date_str[2]
    ELSE IF date_str[1] = "iso" THEN 2 * date_str[2] + 1
    ELSE NoDatetime

\* one of the two halves of _check_dates: the range check of one date
DateInRange(value, after, before) ==
    IF Truthy(after) \/ Truthy(before)
    THEN IF ~Truthy(value) THEN FALSE
         ELSE LET dt == parse_date(value)
                  after_dt == parse_date(after)
                  before_dt == parse_date(before)
              IN  IF dt = NoDatetime THEN FALSE
                  ELSE IF Truthy(after) /\ after_dt # NoDatetime
                          /\ dt < after_dt
                       THEN FALSE
                  ELSE IF Truthy(before) /\ before_dt # NoDatetime
                          /\ dt > before_dt
                       THEN FALSE
                  ELSE TRUE
    ELSE TRUE

\* GraphFilter._check_dates
check_dates(config, created, modified) ==
    IF ~DateInRange(created, config.created_after, config.created_before)
    THEN FALSE
    ELSE DateInRange(modified, config.modified_after, config.modified_before)

\* matches that accepts as soon as the tag filter passes
matches_TagsSuffice(config, path, metadata) ==
    IF ~check_path(config, path) THEN FALSE
    ELSE IF config.tags # <<>> THEN check_tags(config, Get(metadata, "tags", {}))
    ELSE IF DOMAIN config.frontmatter_filters # {}
            /\ ~check_frontmatter(config, Get(metadata, "frontmatter", EmptyMap))
         THEN FALSE
    ELSE check_dates(config, Get(metadata, "created", None),
                     Get(metadata, "modified", None))

\* GraphFilter.matches, with its early returns
matches(config, path, metadata) ==
    IF ~check_path(config, path) THEN FALSE
    ELSE IF config.tags # <<>>
            /\ ~check_tags(config, Get(metadata, "tags", {}))
         THEN FALSE
    ELSE IF DOMAIN config.frontmatter_filters # {}
            /\ ~check_frontmatter(config, Get(metadata, "frontmatter", EmptyMap))
         THEN FALSE
    ELSE IF ~check_dates(config, Get(metadata, "created", None),
                         Get(metadata, "modified", None))
         THEN FALSE
    ELSE TRUE

(***************************************************************************)
(* Traversal (GetNoteGraphToolHandler._traverse_with_index)                *)
(***************************************************************************)

\* list(a_set): the members in the order the set happens to iterate in,
\* order being a list of all paths
ListOf(S, order) == SelectSeq(order, LAMBDA p : p \in S)

\* the neighbour loop without the test "not in visited"
RECURSIVE ExpandFrom_NoVisitedTest(_, _, _, _, _, _)
ExpandFrom_NoVisitedTest(t, neighbours, i, current_path, hop, forward) ==
    IF i > Len(neighbours) THEN t
    ELSE LET nb == neighbours[i]
             edge == IF forward THEN [from |-> current_path, to |-> nb]
                     ELSE [from |-> nb, to |-> current_path]
             t1 == [t EXCEPT !.edges = Append(@, edge),
                             !.queue = Append(@, <<nb, hop + 1>>)]
         IN  ExpandFrom_NoVisitedTest(t1, neighbours, i + 1, current_path,
                                      hop, forward)

\* the neighbour loop with a "break" after its first iteration
ExpandFrom_FirstOnly(t, neighbours, i, current_path, hop, forward) ==
    IF i > Len(neighbours) THEN t
    ELSE LET nb == neighbours[i]
             edge == IF forward THEN [from |-> current_path, to |-> nb]
                     ELSE [from |-> nb, to |-> current_path]
         IN  IF nb \notin t.visited
             THEN [t EXCEPT !.edges = Append(@, edge),
                            !.queue = Append(@, <<nb, hop + 1>>)]
             ELSE t

\* one of the two "for ... in graph_index.get_..._links(current_path)" loops:
\* every neighbour not yet visited adds an edge and is enqueued
RECURSIVE ExpandFrom(_, _, _, _, _, _)
ExpandFrom(t, neighbours, i, current_path, hop, forward) ==
    IF i > Len(neighbours) THEN t
    ELSE LET nb == neighbours[i]
             edge == IF forward THEN [from |-> current_path, to |-> nb]
                     ELSE [from |-> nb, to |-> current_path]
             t1 == IF nb \notin t.visited
                   THEN [t EXCEPT !.edges = Append(@, edge),
                                  !.queue = Append(@, <<nb, hop + 1>>)]
                   ELSE t
         IN  ExpandFrom(t1, neighbours, i + 1, current_path, hop, forward)

\* TraverseStep that gives up on the rest of the queue when a node cannot
\* be read
TraverseStep_UnreadableEndsLoop(t, ix, config, getter, max_hops, order) ==
    LET current_path == t.queue[1][1]
        hop == t.queue[1][2]
        t0 == [t EXCEPT !.queue = Tail(@)]
        t1 == [t0 EXCEPT !.visited = @ \cup {current_path}]
        metadata == get_metadata(ix, current_path)
        content == Get(getter, current_path, [kind |-> "raise"])
        node == [path |-> current_path, hop_distance |-> hop,
                 tags |-> Get(metadata, "tags", {})]
        t2 == [t1 EXCEPT !.nodes = Append(@, node)]
        t3 == ExpandFrom(t2, ListOf(get_forward_links(ix, current_path), order),
                         1, current_path, hop, TRUE)
    IN  IF current_path \in t.visited THEN t0
        ELSE IF has_filters(config) /\ ~matches(config, current_path, metadata)
             THEN t1
        ELSE IF content.kind # "str" THEN [t1 EXCEPT !.queue = <<>>]
        ELSE IF hop < max_hops
             THEN ExpandFrom(t3, ListOf(get_backlinks(ix, current_path), order),
                             1, current_path, hop, FALSE)
        ELSE t2

\* TraverseStep with queue.pop() in place of queue.popleft()
TraverseStep_Lifo(t, ix, config, getter, max_hops, order) ==
    LET current_path == t.queue[Len(t.queue)][1]
        hop == t.queue[Len(t.queue)][2]
        t0 == [t EXCEPT !.queue = SubSeq(@, 1, Len(@) - 1)]
        t1 == [t0 EXCEPT !.visited = @ \cup {current_path}]
        metadata == get_metadata(ix, current_path)
        content == Get(getter, current_path, [kind |-> "raise"])
        node == [path |-> current_path, hop_distance |-> hop,
                 tags |-> Get(metadata, "tags", {})]
        t2 == [t1 EXCEPT !.nodes = Append(@, node)]
        t3 == ExpandFrom(t2, ListOf(get_forward_links(ix, current_path), order),
                         1, current_path, hop, TRUE)
    IN  IF current_path \in t.visited THEN t0
        ELSE IF has_filters(config) /\ ~matches(config, current_path, metadata)
             THEN t1
        ELSE IF content.kind # "str" THEN t1
        ELSE IF hop < max_hops
             THEN ExpandFrom(t3, ListOf(get_backlinks(ix, current_path), order),
                             1, current_path, hop, FALSE)
        ELSE t2

\* TraverseStep with "hop <= max_hops" in place of "hop < max_hops"
TraverseStep_ExpandAtLimit(t, ix, config, getter, max_hops, order) ==
    LET current_path == t.queue[1][1]
        hop == t.queue[1][2]
        t0 == [t EXCEPT !.queue = Tail(@)]
        t1 == [t0 EXCEPT !.visited = @ \cup {current_path}]
        metadata == get_metadata(ix, current_path)
        content == Get(getter, current_path, [kind |-> "raise"])
        node == [path |-> current_path, hop_distance |-> hop,
                 tags |-> Get(metadata, "tags", {})]
        t2 == [t1 EXCEPT !.nodes = Append(@, node)]
        t3 == ExpandFrom(t2, ListOf(get_forward_links(ix, current_path), order),
                         1, current_path, hop, TRUE)
    IN  IF current_path \in t.visited THEN t0
        ELSE IF has_filters(config) /\ ~matches(config, current_path, metadata)
             THEN t1
        ELSE IF content.kind # "str" THEN t1
        ELSE IF hop <= max_hops
             THEN ExpandFrom(t3, ListOf(get_backlinks(ix, current_path), order),
                             1, current_path, hop, FALSE)
        ELSE t2

\* one iteration of the while loop, the queue being non-empty
TraverseStep(t, ix, config, getter, max_hops, order) ==
    LET current_path == t.queue[1][1]
        hop == t.queue[1][2]
        t0 == [t EXCEPT !.queue = Tail(@)]
        t1 == [t0 EXCEPT !.visited = @ \cup {current_path}]
        metadata == get_metadata(ix, current_path)
        content == Get(getter, current_path, [kind |-> "raise"])
        node == [path |-> current_path, hop_distance |-> hop,
                 tags |-> Get(metadata, "tags", {})]
        t2 == [t1 EXCEPT !.nodes = Append(@, node)]
        t3 == ExpandFrom(t2, ListOf(get_forward_links(ix, current_path), order),
                         1, current_path, hop, TRUE)
    IN  IF current_path \in t.visited THEN t0
        ELSE IF has_filters(config) /\ ~matches(config, current_path, metadata)
             THEN t1
        ELSE IF content.kind # "str" THEN t1
        ELSE IF hop < max_hops
             THEN ExpandFrom(t3, ListOf(get_backlinks(ix, current_path), order),
                             1, current_path, hop, FALSE)
        ELSE t2

\* the while loop without the test "len(result_nodes) < max_nodes"
RECURSIVE TraverseLoop_NoLimit(_, _, _, _, _, _, _)
TraverseLoop_NoLimit(t, ix, config, getter, max_hops, max_nodes, order) ==
    IF t.queue # <<>>
    THEN TraverseLoop_NoLimit(
             TraverseStep(t, ix, config, getter, max_hops, order),
             ix, config, getter, max_hops, max_nodes, order)
    ELSE t

\* the loop "while queue and len(result_nodes) < max_nodes"
RECURSIVE TraverseLoop(_, _, _, _, _, _, _)
TraverseLoop(t, ix, config, getter, max_hops, max_nodes, order) ==
    IF t.queue # <<>> /\ Len(t.nodes) < max_nodes
    THEN TraverseLoop(TraverseStep(t, ix, config, getter, max_hops, order),
                      ix, config, getter, max_hops, max_nodes, order)
    ELSE t

\* _traverse_with_index: the nodes in insertion order and the edge list
traverse_with_index(start_path, ix, config, getter, max_hops, max_nodes, order) ==
    LET t == TraverseLoop([queue |-> <<<<start_path, 0>>>>, visited |-> {},
                           nodes |-> <<>>, edges |-> <<>>],
                          ix, config, getter, max_hops, max_nodes, order)
    IN  [nodes |-> t.nodes, edges |-> t.edges,
         total_nodes |-> Len(t.nodes), total_edges |-> Len(t.edges)]

(***************************************************************************)
(* GraphRanker.  The scores it computes are fixed-point numbers, RankScale *)
(* standing for 1.0; the PageRank scores it is given are those of the      *)
(* index; datetimes are numbers of half days, as in GraphFilter.           *)
(***************************************************************************)

RankScale == 10^3

\* RankingConfig(): the defaults, as create_ranker_from_args leaves them
DefaultRanking == [enable_pagerank |-> TRUE, enable_recency |-> TRUE,
                   recency_weight |-> 340]

\* GraphRanker._parse_date: the same formats as GraphFilter._parse_date
ranker_parse_date(date_str) ==
    IF ~Truthy(date_str) THEN NoDatetime
    ELSE IF date_str[1] \in {"ymd", "slash", "isoz"} THEN 2 * date_str[2]
    ELSE IF date_str[1] = "iso" THEN 2 * date_str[2] + 1
    ELSE NoDatetime

\* math.exp(-days_old / decay_days) for decay_days = 10.25
ExpDecay(days_old) ==
    CASE days_old = 0 -> 1000
      [] days_old = 1 -> 907
      [] days_old = 2 -> 822
      [] days_old = 3 -> 746
      [] days_old = 4 -> 676
      [] OTHER -> 613

Min2(a, b) == IF a < b THEN a ELSE b
Max2(a, b) == IF a > b THEN a ELSE b

\* GraphRanker._compute_recency_score, now being datetime.now()
compute_recency_score(created_date, now) ==
    IF ~Truthy(created_date) THEN RankScale \div 2
    ELSE LET created_dt == ranker_parse_date(created_date)
             days_old == (now - created_dt) \div 2
         IN  IF created_dt = NoDatetime THEN RankScale \div 2
             ELSE IF days_old < 0 THEN RankScale
             ELSE Max2(0, Min2(RankScale, ExpDecay(days_old)))

\* the least and the greatest member of a list of numbers
MinOf(values) == CHOOSE v \in Range(values) : \A w \in Range(values) : v <= w
MaxOf(values) == CHOOSE v \in Range(values) : \A w \in Range(values) : v >= w

\* _minmax_normalize that divides by the range without subtracting the
\* minimum
minmax_normalize_NoShift(values) ==
    IF values = <<>> THEN <<>>
    ELSE IF MaxOf(values) = MinOf(values)
         THEN [i \in 1..Len(values) |-> RankScale \div 2]
    ELSE [i \in 1..Len(values) |->
              (values[i] * RankScale) \div (MaxOf(values) - MinOf(values))]

\* GraphRanker._minmax_normalize
minmax_normalize(values) ==
    IF values = <<>> THEN <<>>
    ELSE IF MaxOf(values) = MinOf(values)
         THEN [i \in 1..Len(values) |-> RankScale \div 2]
    ELSE [i \in 1..Len(values) |->
              ((values[i] - MinOf(values)) * RankScale)
                  \div (MaxOf(values) - MinOf(values))]

\* sorted(): one element put into a list sorted by ascending key, behind the
\* elements whose key is equal; pairs are <<key, element>>
InsertByKey(acc, pair) ==
    LET later == {i \in 1..Len(acc) : acc[i][1] > pair[1]}
        at == IF later = {} THEN Len(acc) + 1
              ELSE CHOOSE i \in later : \A j \in later : i <= j
    IN  SubSeq(acc, 1, at - 1) \o <<pair>> \o SubSeq(acc, at, Len(acc))

RECURSIVE StableSortFrom(_, _, _)
StableSortFrom(pairs, i, acc) ==
    IF i > Len(pairs) THEN acc
    ELSE StableSortFrom(pairs, i + 1, InsertByKey(acc, pairs[i]))

\* sorted(nodes, key=...): ascending and stable
SortedBy(nodes, keys) ==
    LET out == StableSortFrom([i \in 1..Len(nodes) |-> <<keys[i], nodes[i]>>],
                              1, <<>>)
    IN  [i \in 1..Len(out) |-> out[i][2]]

\* sorted(nodes, key=..., reverse=True): descending, and stable as well
SortedByReverse(nodes, keys) ==
    SortedBy(nodes, [i \in 1..Len(keys) |-> 0 - keys[i]])

Reverse(seq) == [i \in 1..Len(seq) |-> seq[Len(seq) + 1 - i]]

\* _sort_nodes that gets the descending orders by reversing an ascending sort
sort_nodes_ReversedAscending(nodes, sort_by) ==
    IF sort_by = "relevance"
    THEN Reverse(SortedBy(nodes, [i \in 1..Len(nodes) |-> nodes[i].combined_score]))
    ELSE IF sort_by = "recency"
    THEN Reverse(SortedBy(nodes, [i \in 1..Len(nodes) |-> nodes[i].recency_score]))
    ELSE IF sort_by = "pagerank"
    THEN Reverse(SortedBy(nodes, [i \in 1..Len(nodes) |-> nodes[i].pagerank]))
    ELSE IF sort_by = "hop_distance"
    THEN SortedBy(nodes, [i \in 1..Len(nodes) |-> nodes[i].hop_distance])
    ELSE Reverse(SortedBy(nodes, [i \in 1..Len(nodes) |-> nodes[i].combined_score]))

\* GraphRanker._sort_nodes
sort_nodes(nodes, sort_by) ==
    IF sort_by = "relevance"
    THEN SortedByReverse(nodes, [i \in 1..Len(nodes) |-> nodes[i].combined_score])
    ELSE IF sort_by = "recency"
    THEN SortedByReverse(nodes, [i \in 1..Len(nodes) |-> nodes[i].recency_score])
    ELSE IF sort_by = "pagerank"
    THEN SortedByReverse(nodes, [i \in 1..Len(nodes) |-> nodes[i].pagerank])
    ELSE IF sort_by = "hop_distance"
    THEN SortedBy(nodes, [i \in 1..Len(nodes) |-> nodes[i].hop_distance])
    ELSE SortedByReverse(nodes, [i \in 1..Len(nodes) |-> nodes[i].combined_score])

\* the combined score of one node
CombinedScore(config, pagerank_normalized, recency_score) ==
    IF config.enable_pagerank /\ config.enable_recency
    THEN ((RankScale - config.recency_weight) * pagerank_normalized
              + config.recency_weight * recency_score) \div RankScale
    ELSE IF config.enable_pagerank THEN pagerank_normalized
    ELSE IF config.enable_recency THEN recency_score
    ELSE 0

\* GraphRanker.rank: the nodes with their four scores, sorted
rank(config, nodes, pagerank_scores, sort_by, now) ==
    IF nodes = <<>> THEN nodes
    ELSE LET pagerank == [i \in 1..Len(nodes) |->
                              Get(pagerank_scores, nodes[i].path, 0)]
             recency == [i \in 1..Len(nodes) |->
                             IF config.enable_recency
                             THEN compute_recency_score(nodes[i].created, now)
                             ELSE 0]
             normalized_pr == IF config.enable_pagerank
                              THEN minmax_normalize(pagerank)
                              ELSE [i \in 1..Len(nodes) |-> 0]
             scored == [i \in 1..Len(nodes) |->
                            [path |-> nodes[i].path,
                             hop_distance |-> nodes[i].hop_distance,
                             created |-> nodes[i].created,
                             pagerank |-> pagerank[i],
                             recency_score |-> recency[i],
                             pagerank_normalized |-> normalized_pr[i],
                             combined_score |->
                                 CombinedScore(config, normalized_pr[i],
                                               recency[i])]]
         IN  sort_nodes(scored, sort_by)

(***************************************************************************)
(* The vaults, file lists and exclusion patterns the calls are made with   *)
(***************************************************************************)

A_md  == <<"A", ".", "m", "d">>
B_md  == <<"B", ".", "m", "d">>
C_md  == <<"C", ".", "m", "d">>
dA_md == <<"d", "/", "A", ".", "m", "d">>
ab_md == <<"a", "_", "b", ".", "m", "d">>
N_txt == <<"n", ".", "t", "x", "t">>

Paths == {A_md, B_md, C_md, dA_md, ab_md}

\* the tags of the notes
Project == <<"p", "r", "o", "j", "e", "c", "t">>
HashProject == <<"#", "P", "r", "o", "j", "e", "c", "t">>
Urgent == <<"u", "r", "g", "e", "n", "t">>

\* a note whose text has the given wikilinks and front-matter tags
Note(links, fm_tags) ==
    [kind |-> "str", links |-> links, fm_tags |-> fm_tags,
     inline_tags |-> <<>>, fm |-> EmptyMap]

\* file_getter raises an Exception / returns something that is not a str
Unreadable == [kind |-> "raise", links |-> <<>>, fm_tags |-> <<>>,
               inline_tags |-> <<>>, fm |-> EmptyMap]
NotText    == [kind |-> "nonstr", links |-> <<>>, fm_tags |-> <<>>,
               inline_tags |-> <<>>, fm |-> EmptyMap]

ContentsOf(p) ==
    CASE p = A_md  -> {Note(<< <<"B">> >>, <<>>)}
      [] p = B_md  -> {Note(<< <<"A">> >>, <<>>),
                       Note(<< <<" ", "a", " ">>, <<"z", "z">> >>, <<Urgent>>),
                       Unreadable}
      [] p = C_md  -> {Note(<<>>, <<>>),
                       Note(<< <<"A", "#", "h">>, <<"B">>,
                               <<"d", "/", "A">>, <<"c">> >>, <<HashProject>>),
                       NotText}
      [] p = dA_md -> {Note(<< <<"C", ".", "m", "d">>, <<"d", "/", "A">> >>,
                            <<Project, Urgent>>)}
      [] p = ab_md -> {Note(<< <<"a", " ", "b">>,
                               <<"A", "_", "B", ".", "m", "d">>, <<"B">> >>,
                            <<Urgent>>)}

Vaults == {v \in [Paths -> UNION {ContentsOf(p) : p \in Paths}] :
               \A p \in Paths : v[p] \in ContentsOf(p)}

Listings == {<<A_md, B_md, C_md>>,
             <<A_md, dA_md, B_md>>,
             <<dA_md, A_md, B_md, C_md>>,
             <<N_txt, NonStr, C_md, dA_md>>,
             <<ab_md, B_md, dA_md>>,
             <<>>}

Excludes == {<<>>,
             << <<"d", "/", "*">> >>,
             << <<"C", "*">>, NonStr >>}

\* the orders in which a set of paths can iterate
Orders == {<<A_md, B_md, C_md, dA_md, ab_md>>,
           <<ab_md, dA_md, C_md, B_md, A_md>>}

Threads == {1, 2}

(***************************************************************************)
(* The process: the module global and the calls, one at a time             *)
(***************************************************************************)

NoResult == [nodes |-> <<>>, edges |-> <<>>, total_nodes |-> 0,
             total_edges |-> 0]

NoLocal == [all_files |-> <<>>, exclude_paths |-> <<>>, force |-> FALSE,
            self |-> 0, md_files |-> <<>>, name_to_path |-> EmptyMap,
            i |-> 0]

Idle == [t \in Threads |-> "idle"]
NoLocals == [t \in Threads |-> NoLocal]

\* what is recorded of a call when it ends: the operation, its force_rebuild
\* argument, whether it ran build and whether build raised; and of the
\* calls so far: whether some build ran to its end, and the exclusion
\* patterns of the last build of the process-wide index
Record(op, force, attempted, raised, excl) ==
    [op |-> op, force |-> force, attempted |-> attempted, raised |-> raised,
     ever_built |-> last.ever_built \/ (attempted /\ ~raised),
     built_excl |-> IF attempted THEN <<excl>> ELSE last.built_excl,
     args |-> <<>>, value |-> <<>>]

\* what is recorded of a query: its arguments and the value it returned
Observed(op, args, value) ==
    [Record(op, FALSE, FALSE, FALSE, <<>>) EXCEPT !.args = args,
                                                  !.value = value]

\* the calls that hand a value to the caller
QueryOps == {"traverse", "get_backlinks", "get_forward_links",
             "get_pagerank", "get_metadata", "get_stats",
             "append_to_list", "append_tag"}

\* the caller holds no value of an earlier query
Ready == pc = Idle /\ last.op \notin QueryOps

Init ==
    /\ vault \in Vaults
    /\ graph_index = 0
    /\ heap = EmptyMap
    /\ last = [op |-> "init", force |-> FALSE, attempted |-> FALSE,
               raised |-> FALSE, ever_built |-> FALSE, built_excl |-> <<>>,
               args |-> <<>>, value |-> <<>>]
    /\ result = NoResult
    /\ pc = Idle
    /\ loc = NoLocals

\* the id of a newly allocated object: the first one no reference holds
NewId(refs) ==
    CHOOSE i \in 1..(Cardinality(refs) + 1) :
        i \notin refs /\ \A j \in 1..(i - 1) : j \in refs

\* get_graph_index that, on a rebuild without patterns, hands the patterns
\* of the index it replaces to the new instance
GetGraphIndex_KeepsPatterns(all_files, exclude_paths, force_rebuild) ==
    /\ pc = Idle
    /\ IF graph_index = 0 \/ force_rebuild
       THEN LET id == NewId({graph_index} \ {0})
                ix0 == IF exclude_paths # <<>>
                       THEN set_exclude_paths(NewGraphIndex, exclude_paths)
                       ELSE IF graph_index # 0
                            THEN set_exclude_paths(
                                     NewGraphIndex,
                                     heap[graph_index].exclude_paths)
                       ELSE NewGraphIndex
                b == build(ix0, all_files, vault)
            IN  /\ graph_index' = id
                /\ heap' = (id :> b.ix)
                /\ last' = [Record("get_graph_index", force_rebuild, TRUE,
                                   b.raised, ix0.exclude_paths)
                               EXCEPT !.args = <<exclude_paths>>]
       ELSE /\ UNCHANGED <<graph_index, heap>>
            /\ last' = [Record("get_graph_index", force_rebuild, FALSE,
                                   FALSE, <<>>)
                               EXCEPT !.args = <<exclude_paths>>]
    /\ result' = NoResult
    /\ UNCHANGED <<vault, pc, loc>>

\* get_graph_index(file_getter, all_files, exclude_paths, force_rebuild),
\* run from the call to its return or to the exception leaving it
GetGraphIndex(all_files, exclude_paths, force_rebuild) ==
    /\ pc = Idle
    /\ IF graph_index = 0 \/ force_rebuild
       THEN LET id == NewId({graph_index} \ {0})
                ix0 == IF exclude_paths # <<>>
                       THEN set_exclude_paths(NewGraphIndex, exclude_paths)
                       ELSE NewGraphIndex
                b == build(ix0, all_files, vault)
            IN  /\ graph_index' = id
                /\ heap' = (id :> b.ix)
                /\ last' = [Record("get_graph_index", force_rebuild, TRUE,
                                   b.raised, ix0.exclude_paths)
                               EXCEPT !.args = <<exclude_paths>>]
       ELSE /\ UNCHANGED <<graph_index, heap>>
            /\ last' = [Record("get_graph_index", force_rebuild, FALSE,
                                   FALSE, <<>>)
                               EXCEPT !.args = <<exclude_paths>>]
    /\ result' = NoResult
    /\ UNCHANGED <<vault, pc, loc>>

\* GraphIndex.build(all_files) called on the process-wide index
Build(all_files) ==
    /\ pc = Idle
    /\ graph_index # 0
    /\ LET b == build(heap[graph_index], all_files, vault)
       IN  /\ heap' = [heap EXCEPT ![graph_index] = b.ix]
           /\ last' = Record("build", FALSE, TRUE, b.raised,
                             heap[graph_index].exclude_paths)
    /\ result' = NoResult
    /\ UNCHANGED <<vault, graph_index, pc, loc>>

\* GraphIndex.set_exclude_paths(patterns) called on the process-wide index
SetExcludePaths(patterns) ==
    /\ pc = Idle
    /\ graph_index # 0
    /\ heap' = [heap EXCEPT ![graph_index] = set_exclude_paths(@, patterns)]
    /\ last' = Record("set_exclude_paths", FALSE, FALSE, FALSE, <<>>)
    /\ result' = NoResult
    /\ UNCHANGED <<vault, graph_index, pc, loc>>

\* _traverse_with_index on the process-wide index, as run_tool calls it for
\* a request; direction is the "direction" entry of the request, which
\* run_tool does not read and _traverse_with_index has no parameter for
TraverseWithIndex(start_path, config, max_hops, max_nodes, order, direction) ==
    /\ Ready
    /\ graph_index # 0
    /\ result' = traverse_with_index(start_path, heap[graph_index], config,
                                     vault, max_hops, max_nodes, order)
    /\ last' = Observed("traverse",
                        [start_path |-> start_path, config |-> config,
                         max_hops |-> max_hops, max_nodes |-> max_nodes,
                         order |-> order, direction |-> direction],
                        <<>>)
    /\ UNCHANGED <<vault, graph_index, heap, pc, loc>>

Filters == {NoFilter,
            [NoFilter EXCEPT !.exclude_paths = << <<"B", "*">> >>],
            [NoFilter EXCEPT !.tags = <<Project>>],
            [NoFilter EXCEPT !.tags = <<HashProject, Urgent>>,
                             !.tags_match_all = TRUE,
                             !.include_paths = << <<"*", ".", "m", "d">> >>]}

MaxHopsChoices == {1, 2}
MaxNodesChoices == {2, 5}
Directions == {"outgoing", "incoming", "both"}

\* the order in which the sets iterate in the lifecycle runs
DefaultOrder == <<A_md, B_md, C_md, dA_md, ab_md>>

Next ==
    \/ \E f \in Listings, e \in Excludes, force \in BOOLEAN :
           GetGraphIndex(f, e, force)
    \/ \E f \in Listings : Build(f)
    \/ \E e \in Excludes : SetExcludePaths(e)
    \/ \E s \in Paths \cup {N_txt}, h \in MaxHopsChoices :
           TraverseWithIndex(s, NoFilter, h, 5, DefaultOrder, "both")

Spec == Init /\ [][Next]_vars

(***************************************************************************)
(* The queries on an index that has been built (or whose first build has   *)
(* raised): the getters, the traversal and what the caller does with the   *)
(* values it was given.                                                    *)
(***************************************************************************)

QueryListings == Listings \cup {<<dA_md, A_md, B_md, C_md, ab_md>>}

\* the state after the first get_graph_index(file_getter, f, e) of a process
InitQuery ==
    /\ vault \in Vaults
    /\ graph_index = 1
    /\ \E f \in QueryListings, e \in Excludes :
           LET ix0 == IF e # <<>> THEN set_exclude_paths(NewGraphIndex, e)
                      ELSE NewGraphIndex
               b == build(ix0, f, vault)
           IN  /\ heap = (1 :> b.ix)
               /\ last = [op |-> "get_graph_index", force |-> FALSE,
                          attempted |-> TRUE, raised |-> b.raised,
                          ever_built |-> ~b.raised, built_excl |-> <<e>>,
                          args |-> <<e>>, value |-> <<>>]
    /\ result = NoResult
    /\ pc = Idle
    /\ loc = NoLocals

\* graph_index.get_backlinks(path): a new list of the members of the set
GetBacklinks(path, order) ==
    /\ Ready
    /\ graph_index # 0
    /\ last' = Observed("get_backlinks", <<path>>,
                        ListOf(get_backlinks(heap[graph_index], path), order))
    /\ UNCHANGED <<vault, graph_index, heap, result, pc, loc>>

\* graph_index.get_forward_links(path): a new list of the members of the set
GetForwardLinks(path, order) ==
    /\ Ready
    /\ graph_index # 0
    /\ last' = Observed("get_forward_links", <<path>>,
                        ListOf(get_forward_links(heap[graph_index], path),
                               order))
    /\ UNCHANGED <<vault, graph_index, heap, result, pc, loc>>

\* graph_index.get_pagerank(path)
GetPagerank(path) ==
    /\ Ready
    /\ graph_index # 0
    /\ last' = Observed("get_pagerank", <<path>>,
                        get_pagerank(heap[graph_index], path))
    /\ UNCHANGED <<vault, graph_index, heap, result, pc, loc>>

\* graph_index.get_metadata(path)
GetMetadata(path) ==
    /\ Ready
    /\ graph_index # 0
    /\ last' = Observed("get_metadata", <<path>>,
                        get_metadata(heap[graph_index], path))
    /\ UNCHANGED <<vault, graph_index, heap, result, pc, loc>>

\* graph_index.get_stats()
GetStats ==
    /\ Ready
    /\ graph_index # 0
    /\ last' = Observed("get_stats", <<>>, get_stats(heap[graph_index]))
    /\ UNCHANGED <<vault, graph_index, heap, result, pc, loc>>

\* the caller appends an entry to the list get_backlinks or
\* get_forward_links gave it: the list is the caller's own
CallerAppendsToList(path) ==
    /\ pc = Idle
    /\ last.op \in {"get_backlinks", "get_forward_links"}
    /\ last' = [last EXCEPT !.op = "append_to_list",
                            !.value = Append(@, path)]
    /\ UNCHANGED <<vault, graph_index, heap, result, pc, loc>>

\* the caller appends a tag to the 'tags' list of the i-th node record of
\* the traversal result.  node_data['tags'] is metadata.get('tags', []):
\* for a path with cached metadata it is the list object that the metadata
\* cache holds, for any other path a new empty list.
CallerAppendsTag(i, tag) ==
    /\ pc = Idle
    /\ graph_index # 0
    /\ last.op = "traverse"
    /\ i \in 1..Len(result.nodes)
    /\ \A p \in DOMAIN heap[graph_index].metadata_cache :
           tag \notin heap[graph_index].metadata_cache[p].tags
    /\ LET path == result.nodes[i].path
       IN  /\ result' = [result EXCEPT !.nodes[i].tags = @ \cup {tag}]
           /\ heap' = IF path \in DOMAIN heap[graph_index].metadata_cache
                      THEN [heap EXCEPT
                               ![graph_index].metadata_cache[path].tags =
                                   @ \cup {tag}]
                      ELSE heap
    /\ last' = [last EXCEPT !.op = "append_tag"]
    /\ UNCHANGED <<vault, graph_index, pc, loc>>

\* a file that was read when the index was built can no longer be read
FileLost(path) ==
    /\ pc = Idle
    /\ last.op = "get_graph_index"
    /\ vault[path].kind = "str"
    /\ vault' = [vault EXCEPT ![path] = Unreadable]
    /\ UNCHANGED <<graph_index, heap, last, result, pc, loc>>

\* the caller is done with the value it was given
Discard ==
    /\ pc = Idle
    /\ last.op \in QueryOps
    /\ last' = [last EXCEPT !.op = "discard", !.args = <<>>, !.value = <<>>]
    /\ result' = NoResult
    /\ UNCHANGED <<vault, graph_index, heap, pc, loc>>

NextQuery ==
    \/ \E p \in Paths \cup {N_txt}, o \in Orders : GetBacklinks(p, o)
    \/ \E p \in Paths \cup {N_txt}, o \in Orders : GetForwardLinks(p, o)
    \/ \E p \in Paths \cup {N_txt} : GetPagerank(p)
    \/ \E p \in Paths \cup {N_txt} : GetMetadata(p)
    \/ GetStats
    \/ \E s \in Paths \cup {N_txt}, c \in Filters, h \in MaxHopsChoices,
          n \in MaxNodesChoices, o \in Orders, d \in Directions :
           TraverseWithIndex(s, c, h, n, o, d)
    \/ CallerAppendsToList(N_txt)
    \/ \E i \in 1..Cardinality(Paths) : CallerAppendsTag(i, <<"z", "z">>)
    \/ FileLost(B_md)
    \/ Discard

SpecQuery == InitQuery /\ [][NextQuery]_vars

(***************************************************************************)
(* GraphFilter.matches on its own: a FilterConfig, a path and the metadata *)
(* that _extract_metadata gives for a note (or the {} of an unknown path). *)
(***************************************************************************)

Up     == <<"u", "p">>
UpCaps == <<"U", "p">>
Down   == <<"d", "o", "w", "n">>

\* a note with the given front matter and front-matter tags, and no links
NoteWith(fm, fm_tags) == [Note(<<>>, fm_tags) EXCEPT !.fm = fm]

\* the notes whose metadata the filter is applied to
FilterNotes ==
    {Note(<<>>, <<>>),
     NoteWith(("status" :> StrVal(Up))
                  @@ ("created" :> StrVal(DateStr("ymd", 3)))
                  @@ ("modified" :> StrVal(DateStr("iso", 3))),
              <<Project, Urgent>>),
     NoteWith(("status" :> StrVal(Down))
                  @@ ("date" :> StrVal(DateStr("slash", 2)))
                  @@ ("updated" :> StrVal(DateStr("text", 0))),
              <<Urgent>>),
     NoteWith(("dateCreated" :> StrVal(DateStr("isoz", 1)))
                  @@ ("dateModified" :> StrVal(DateStr("ymd", 2))),
              <<HashProject>>)}

FilterPaths == {A_md, dA_md, ab_md}

\* the choices of each category of a FilterConfig
PathChoices ==
    {[include_paths |-> <<>>, exclude_paths |-> <<>>],
     [include_paths |-> << <<"d", "/", "*">> >>, exclude_paths |-> <<>>],
     [include_paths |-> << <<"*", ".", "m", "d">> >>,
      exclude_paths |-> << <<"a", "*">> >>],
     [include_paths |-> <<>>, exclude_paths |-> << <<"A", ".", "m", "d">> >>],
     [include_paths |-> << <<"C", "*">>, <<"A", "*">> >>,
      exclude_paths |-> <<>>]}

TagChoices ==
    {[tags |-> <<>>, tags_match_all |-> FALSE],
     [tags |-> <<Project>>, tags_match_all |-> FALSE],
     [tags |-> <<HashProject>>, tags_match_all |-> FALSE],
     [tags |-> <<HashProject, Urgent>>, tags_match_all |-> FALSE],
     [tags |-> <<HashProject, Urgent>>, tags_match_all |-> TRUE]}

FrontmatterChoices ==
    {EmptyMap,
     "status" :> StrVal(UpCaps),
     "tags" :> StrVal(Urgent),
     ("status" :> StrVal(Down)) @@ ("rank" :> IntVal(1))}

FilterConfigs ==
    {[tags |-> t.tags, tags_match_all |-> t.tags_match_all,
      frontmatter_filters |-> f,
      include_paths |-> p.include_paths, exclude_paths |-> p.exclude_paths,
      created_after |-> ca, created_before |-> cb,
      modified_after |-> ma, modified_before |-> mb] :
        t \in TagChoices, f \in FrontmatterChoices, p \in PathChoices,
        ca \in {None, DateStr("ymd", 2)},
        cb \in {None, DateStr("slash", 3)},
        ma \in {None, DateStr("iso", 2)},
        mb \in {None, DateStr("ymd", 2), DateStr("text", 0)}}

\* a filter has been made and a node of the index is about to be tested
InitFilter ==
    /\ \E note \in FilterNotes, path \in FilterPaths, config \in FilterConfigs,
          known \in BOOLEAN :
           /\ vault = [p \in Paths |-> note]
           /\ last = [op |-> "filter", force |-> FALSE, attempted |-> FALSE,
                      raised |-> FALSE, ever_built |-> FALSE,
                      built_excl |-> <<>>,
                      args |-> [config |-> config, path |-> path,
                                metadata |-> IF known
                                             THEN extract_metadata(path, note)
                                             ELSE EmptyMap],
                      value |-> <<>>]
    /\ graph_index = 0
    /\ heap = <<>>
    /\ result = NoResult
    /\ pc = Idle
    /\ loc = NoLocals

\* graph_filter.matches(path, metadata)
Matches ==
    /\ last.op = "filter"
    /\ last' = [last EXCEPT
                  !.op = "matches",
                  !.value = matches(last.args.config, last.args.path,
                                    last.args.metadata)]
    /\ UNCHANGED <<vault, graph_index, heap, result, pc, loc>>

NextFilter == Matches

SpecFilter == InitFilter /\ [][NextFilter]_vars

(***************************************************************************)
(* GraphRanker.rank on its own: a list of node records as the traversal    *)
(* returns them, the PageRank table of the index, a RankingConfig and a    *)
(* sort mode.                                                              *)
(***************************************************************************)

\* a node record of a traversal result, as far as the ranker reads it
RankNode(path, hop_distance, created) ==
    [path |-> path, hop_distance |-> hop_distance, created |-> created]

RankNodes ==
    {RankNode(A_md, 2, DateStr("ymd", 3)),
     RankNode(B_md, 0, None),
     RankNode(C_md, 1, DateStr("ymd", 1)),
     RankNode(dA_md, 1, DateStr("ymd", 3)),
     RankNode(ab_md, 2, DateStr("text", 0))}

MaxRanked == 3

\* the node lists: up to MaxRanked of the nodes, in any order, none twice
NodeLists ==
    UNION {{l \in [1..n -> RankNodes] :
                \A i \in 1..n, j \in 1..n : i # j => l[i] # l[j]} :
           n \in 0..MaxRanked}

PagerankTables ==
    {EmptyMap,
     (A_md :> 750000) @@ (B_md :> 1387500) @@ (C_md :> 750000)
         @@ (dA_md :> 2000000),
     [p \in Paths |-> 2000000]}

RankingConfigs ==
    {[enable_pagerank |-> ep, enable_recency |-> er, recency_weight |-> w] :
        ep \in BOOLEAN, er \in BOOLEAN,
        w \in {0, DefaultRanking.recency_weight, RankScale, 1500}}

SortModes == {"relevance", "recency", "pagerank", "hop_distance", "newest"}

\* datetime.now(), in half days
Nows == {4, 9}

\* a ranker has been made and a traversal result is about to be ranked
InitRank ==
    /\ \E nodes \in NodeLists, pagerank_scores \in PagerankTables,
          config \in RankingConfigs, sort_by \in SortModes, now \in Nows :
           last = [op |-> "ranker", force |-> FALSE, attempted |-> FALSE,
                   raised |-> FALSE, ever_built |-> FALSE,
                   built_excl |-> <<>>,
                   args |-> [nodes |-> nodes,
                             pagerank_scores |-> pagerank_scores,
                             config |-> config, sort_by |-> sort_by,
                             now |-> now],
                   value |-> <<>>]
    /\ vault \in {[p \in Paths |-> Note(<<>>, <<>>)]}
    /\ graph_index = 0
    /\ heap = <<>>
    /\ result = NoResult
    /\ pc = Idle
    /\ loc = NoLocals

\* ranker.rank(nodes, pagerank_scores, sort_by)
Rank ==
    /\ last.op = "ranker"
    /\ last' = [last EXCEPT
                  !.op = "rank",
                  !.value = rank(last.args.config, last.args.nodes,
                                 last.args.pagerank_scores,
                                 last.args.sort_by, last.args.now)]
    /\ UNCHANGED <<vault, graph_index, heap, result, pc, loc>>

NextRank == Rank

SpecRank == InitRank /\ [][NextRank]_vars

(***************************************************************************)
(* Properties                                                              *)
(***************************************************************************)

\* the call that just returned was a build that ran to its end
JustBuilt ==
    /\ last.op \in {"get_graph_index", "build"}
    /\ last.attempted
    /\ ~last.raised

\* C1: after any build the forward and the reverse adjacency are mirrors:
\* n is a backlink of m exactly when m is a forward link of n
C1_Mirror ==
    \A id \in DOMAIN heap :
        LET ix == heap[id]
            all == DOMAIN ix.adjacency \cup DOMAIN ix.reverse_adj \cup Paths
        IN  \A n \in all, m \in all :
                n \in get_backlinks(ix, m) <=> m \in get_forward_links(ix, n)

\* a build has produced an index with at least one edge
C1_Witness ==
    /\ JustBuilt
    /\ \E n \in Paths : get_forward_links(heap[graph_index], n) # {}

\* the process-wide index, as a list of none or one instance
TheIndex == IF graph_index = 0 THEN <<>> ELSE <<heap[graph_index]>>

\* C2: a build attempt that fails with an uncaught error leaves the
\* process-wide index exactly as it was before the attempt
C2_FailedBuildKeepsIndex ==
    [][(last'.attempted /\ last'.raised) =>
           (graph_index' = graph_index /\ TheIndex' = TheIndex)]_vars

\* the patterns name excludes the path
ExcludedBy(patterns, p) == ShouldIndexFrom(patterns, 1, p) = "false"

\* the paths of the nodes and the edge endpoints a traversal returned
ResultPaths ==
    {result.nodes[i].path : i \in 1..Len(result.nodes)}
        \cup {result.edges[i].from : i \in 1..Len(result.edges)}
        \cup {result.edges[i].to : i \in 1..Len(result.edges)}

\* C4: a file matching an exclusion pattern of the build is no key and no
\* member of either adjacency map, has no metadata and no score, and is
\* never among the nodes or edge endpoints a traversal returns
C4_ExcludedNowhere ==
    (graph_index # 0 /\ last.built_excl = <<heap[graph_index].exclude_paths>>)
    => LET ix == heap[graph_index]
       IN  \A p \in Paths \cap Range(ix.all_files) :
               ExcludedBy(ix.exclude_paths, p) =>
                   /\ p \notin DOMAIN ix.adjacency
                   /\ p \notin DOMAIN ix.reverse_adj
                   /\ \A q \in DOMAIN ix.adjacency : p \notin ix.adjacency[q]
                   /\ \A q \in DOMAIN ix.reverse_adj : p \notin ix.reverse_adj[q]
                   /\ p \notin DOMAIN ix.metadata_cache
                   /\ p \notin DOMAIN ix.pagerank_scores
                   /\ p \notin ResultPaths

\* C5: get_graph_index runs a build exactly when no index has been built
\* before or force_rebuild is true, and at most one instance is live
C5_BuildsExactlyWhenNeeded ==
    [][last'.op = "get_graph_index" =>
           /\ last'.attempted <=> (~last.ever_built \/ last'.force)
           /\ Cardinality(DOMAIN heap') <= 1]_vars

\* the targets of the wikilinks of a note that resolve to another note
ResolvedLinks(p, content, name_to_path) ==
    {resolve_link(t, name_to_path) : t \in Range(extract_wikilinks(content))}
        \ {None, <<>>, p}

\* C6: a file that cannot be read (the getter raises or returns no string)
\* is skipped and the build still runs to its end and is marked built: every
\* readable file of the filtered list has exactly the edges and the metadata
\* its own text gives, whichever other files failed
C6_UnreadableSkipped ==
    /\ (last.attempted /\ last.raised) =>
           MdFiles(heap[graph_index], heap[graph_index].all_files).raised
    /\ JustBuilt =>
           LET ix == heap[graph_index]
               md == MdFiles(ix, ix.all_files).files
               name_to_path == build_name_to_path_map(md)
           IN  /\ ix.built
               /\ \A p \in Paths :
                      IF p \in Range(md) /\ vault[p].kind = "str"
                      THEN /\ p \in DOMAIN ix.adjacency
                           /\ ix.adjacency[p] =
                                  ResolvedLinks(p, vault[p], name_to_path)
                           /\ p \in DOMAIN ix.metadata_cache
                           /\ ix.metadata_cache[p] =
                                  extract_metadata(p, vault[p])
                      ELSE /\ p \notin DOMAIN ix.adjacency
                           /\ p \notin DOMAIN ix.metadata_cache

\* a build has skipped an unreadable file and then indexed, with an edge, a
\* file that comes later in the list
C6_Witness ==
    /\ JustBuilt
    /\ LET ix == heap[graph_index]
           md == MdFiles(ix, ix.all_files).files
       IN  \E i \in 1..Len(md), j \in 1..Len(md) :
               /\ i < j
               /\ vault[md[i]].kind # "str"
               /\ md[j] \in DOMAIN ix.adjacency
               /\ ix.adjacency[md[j]] # {}

\* 1e-4: the tolerance on a sum of scores
SumTol == 100 * (Scale \div TolInv)

ScoreSum(ix) == SetSum(ix.pagerank_scores, DOMAIN ix.pagerank_scores)

\* every node has an outgoing link and every link leads to a node
NoDangling(ix) ==
    \A n \in DOMAIN ix.adjacency :
        ix.adjacency[n] # {} /\ ix.adjacency[n] \subseteq DOMAIN ix.adjacency

\* C7 as claimed: after a build the scores of the nodes sum to 1 within
\* tolerance and every score lies strictly between 0 and 1
C7_SumIsOne ==
    (JustBuilt /\ DOMAIN heap[graph_index].adjacency # {}) =>
        LET ix == heap[graph_index]
        IN  /\ Abs(ScoreSum(ix) - Scale) <= SumTol
            /\ \A n \in DOMAIN ix.pagerank_scores :
                   0 < ix.pagerank_scores[n] /\ ix.pagerank_scores[n] < Scale

\* C7 amended: after a build every node has a score strictly between 0 and
\* 1 and the scores sum to at most 1; they sum to 1 within tolerance when
\* every node has an outgoing link and every link leads to a node
C7_SumAtMostOne ==
    JustBuilt =>
        LET ix == heap[graph_index]
        IN  /\ DOMAIN ix.pagerank_scores = DOMAIN ix.adjacency
            /\ \A n \in DOMAIN ix.pagerank_scores :
                   0 < ix.pagerank_scores[n] /\ ix.pagerank_scores[n] < Scale
            /\ ScoreSum(ix) <= Scale
            /\ (NoDangling(ix) /\ DOMAIN ix.adjacency # {}) =>
                   Scale - ScoreSum(ix) <= SumTol

\* a build has produced a graph of three nodes, each with an outgoing link
C7_Witness ==
    /\ JustBuilt
    /\ Cardinality(DOMAIN heap[graph_index].adjacency) >= 3
    /\ NoDangling(heap[graph_index])

\* the vault of the scenario: A.md is [[B]], B.md is [[A]], C.md has no link
ScenarioBuilt ==
    /\ JustBuilt
    /\ heap[graph_index].all_files = <<A_md, B_md, C_md>>
    /\ heap[graph_index].exclude_paths = <<>>
    /\ vault[A_md] = Note(<< <<"B">> >>, <<>>)
    /\ vault[B_md] = Note(<< <<"A">> >>, <<>>)
    /\ vault[C_md] = Note(<<>>, <<>>)

\* C8: in the scenario A.md links to B.md only, B.md has the one backlink
\* A.md, C.md has no link, A.md and B.md have equal scores and C.md a
\* strictly smaller one; in every graph a node without backlinks has the
\* minimum score
C8_Scenario ==
    /\ ScenarioBuilt =>
           LET ix == heap[graph_index]
           IN  /\ get_forward_links(ix, A_md) = {B_md}
               /\ get_backlinks(ix, B_md) = {A_md}
               /\ get_forward_links(ix, C_md) = {}
               /\ get_pagerank(ix, A_md) = get_pagerank(ix, B_md)
               /\ get_pagerank(ix, C_md) < get_pagerank(ix, A_md)
    /\ JustBuilt =>
           LET ix == heap[graph_index]
           IN  \A n \in DOMAIN ix.pagerank_scores :
                   get_backlinks(ix, n) = {} =>
                       \A m \in DOMAIN ix.pagerank_scores :
                           get_pagerank(ix, n) <= get_pagerank(ix, m)

C8_Witness == ScenarioBuilt

\* C9: a build gives the maps and scores that a build of a new instance
\* with the same patterns, file list and contents gives, whatever the
\* instance held before
C9_RebuildFromScratch ==
    JustBuilt =>
        LET ix == heap[graph_index]
            fresh == set_exclude_paths(NewGraphIndex, ix.exclude_paths)
        IN  ix = build(fresh, ix.all_files, vault).ix

\* build has run to its end on an instance that had been built before, and
\* the graph has an edge
C9_Witness ==
    /\ JustBuilt
    /\ last.op = "build"
    /\ \E n \in Paths : get_forward_links(heap[graph_index], n) # {}

\* C10: a target that is the lowercased, extension-less full path of an
\* indexed file resolves to that file, whatever other files are indexed; a
\* note none of whose targets matches a key has no outgoing edge
C10_FullPathWins ==
    JustBuilt =>
        LET ix == heap[graph_index]
            md == MdFiles(ix, ix.all_files).files
            name_to_path == build_name_to_path_map(md)
        IN  \A p \in Range(md) :
                vault[p].kind = "str" =>
                    LET targets == Range(extract_wikilinks(vault[p]))
                    IN  /\ \A t \in targets, g \in Range(md) :
                               t = StripMd(Lower(g)) =>
                                   /\ resolve_link(t, name_to_path) = g
                                   /\ g # p => g \in ix.adjacency[p]
                        /\ (\A t \in targets :
                                resolve_link(t, name_to_path) = None)
                               => ix.adjacency[p] = {}

\* the notes of the filtered list whose text links to the note itself
SelfLinking(ix) ==
    LET md == MdFiles(ix, ix.all_files).files
        name_to_path == build_name_to_path_map(md)
    IN  {p \in Range(md) \cap Paths :
            /\ vault[p].kind = "str"
            /\ \E t \in Range(extract_wikilinks(vault[p])) :
                   resolve_link(t, name_to_path) = p}

\* C11: the graph never has a self-loop: no path is among its own forward
\* links or its own backlinks, also when the note links to itself by name,
\* by full path or through a space/underscore variant of its name
C11_NoSelfLoop ==
    \A id \in DOMAIN heap :
        \A p \in DOMAIN heap[id].adjacency \cup DOMAIN heap[id].reverse_adj
                  \cup Paths :
            /\ p \notin get_forward_links(heap[id], p)
            /\ p \notin get_backlinks(heap[id], p)

\* a build has indexed two notes that link to themselves, d/A.md by its
\* full path and a_b.md by its name and as "a b", and a_b.md has an edge
C11_Witness ==
    /\ JustBuilt
    /\ {dA_md, ab_md} \subseteq SelfLinking(heap[graph_index])
    /\ get_forward_links(heap[graph_index], ab_md) # {}

\* the four maps of the process-wide index
IndexMaps ==
    IF graph_index = 0 THEN <<>>
    ELSE <<heap[graph_index].adjacency, heap[graph_index].reverse_adj,
           heap[graph_index].metadata_cache,
           heap[graph_index].pagerank_scores>>

\* C12: nothing but build changes the index maps: a getter, get_stats, a
\* traversal and what callers do with the lists and the node records they
\* were given leave the four maps as the last build left them
C12_OnlyBuildMutates ==
    [][~last'.attempted => IndexMaps' = IndexMaps]_vars

\* the empty value a getter gives for a path it does not know
EmptyValueOf(op) ==
    CASE op = "get_backlinks" -> <<>>
      [] op = "get_forward_links" -> <<>>
      [] op = "get_metadata" -> EmptyMap

\* C13: for a path that is not among the indexed files (the index was never
\* built, the path is excluded, or it is not a markdown file of the list)
\* get_backlinks and get_forward_links return an empty list, get_pagerank
\* returns 0.0 and get_metadata a record with no field set; the call
\* returns and the path is in none of the maps afterwards
C13_UnknownPathDefaults ==
    last.op \in {"get_backlinks", "get_forward_links", "get_pagerank",
                 "get_metadata"} =>
        LET ix == heap[graph_index]
            p == last.args[1]
            md == MdFiles(ix, ix.all_files)
        IN  (md.raised \/ p \notin Range(md.files)) =>
                /\ IF last.op = "get_pagerank" THEN last.value = 0
                   ELSE last.value = EmptyValueOf(last.op)
                /\ p \notin DOMAIN ix.adjacency
                /\ p \notin DOMAIN ix.reverse_adj
                /\ p \notin DOMAIN ix.metadata_cache
                /\ p \notin DOMAIN ix.pagerank_scores

\* get_pagerank was asked for a file that the build excluded, the index
\* holding other files
C13_Witness ==
    /\ last.op = "get_pagerank"
    /\ last.args[1] = dA_md
    /\ dA_md \in Range(heap[graph_index].all_files)
    /\ ExcludedBy(heap[graph_index].exclude_paths, dA_md)
    /\ heap[graph_index].built
    /\ DOMAIN heap[graph_index].pagerank_scores # {}

\* the last call was a traversal
Traversed == last.op = "traverse"

\* the paths of the returned nodes
NodePaths == {result.nodes[i].path : i \in 1..Len(result.nodes)}

\* the returned nodes
Nodes == Range(result.nodes)

\* the neighbours of a path in the index, links taken in both directions
Neighbours(ix, p) == get_forward_links(ix, p) \cup get_backlinks(ix, p)

\* the paths within k links, taken in either direction, of the start path
RECURSIVE Ball(_, _, _)
Ball(ix, start_path, k) ==
    IF k = 0 THEN {start_path}
    ELSE LET B == Ball(ix, start_path, k - 1)
         IN  B \cup UNION {Neighbours(ix, p) : p \in B}

\* C14: every returned node has a hop_distance from 0 to max_hops and lies
\* within max_hops links of the start; a node dequeued at max_hops is not
\* expanded, so every edge was found from a node nearer than max_hops
C14_HopsWithinLimit ==
    Traversed =>
        LET ix == heap[graph_index]
        IN  /\ \A n \in Nodes :
                   /\ 0 <= n.hop_distance
                   /\ n.hop_distance <= last.args.max_hops
                   /\ n.path \in Ball(ix, last.args.start_path,
                                      last.args.max_hops)
            /\ \A e \in Range(result.edges) :
                   \E n \in Nodes :
                       /\ n.hop_distance < last.args.max_hops
                       /\ n.path \in {e.from, e.to}

\* a traversal has returned, below max_nodes, a node at max_hops that has a
\* readable neighbour which was not returned
C14_Witness ==
    /\ Traversed
    /\ Len(result.nodes) < last.args.max_nodes
    /\ ~has_filters(last.args.config)
    /\ \E n \in Nodes :
           /\ n.hop_distance = last.args.max_hops
           /\ \E q \in Neighbours(heap[graph_index], n.path) \ NodePaths :
                  vault[q].kind = "str"

\* C15: a traversal never returns more than max_nodes nodes, no path twice,
\* and summary.total_nodes is the length of the node list
C15_AtMostMaxNodes ==
    Traversed =>
        /\ Len(result.nodes) <= last.args.max_nodes
        /\ Cardinality(NodePaths) = Len(result.nodes)
        /\ result.total_nodes = Len(result.nodes)

\* a traversal has stopped at max_nodes with a readable neighbour of the
\* start left out
C15_Witness ==
    /\ Traversed
    /\ Len(result.nodes) = last.args.max_nodes
    /\ ~has_filters(last.args.config)
    /\ \E q \in Neighbours(heap[graph_index], last.args.start_path)
                   \ NodePaths :
           vault[q].kind = "str"

\* the index of the scenario: A.md is [[B]], B.md is [[A]], C.md has no link
ScenarioIndex ==
    /\ graph_index # 0
    /\ heap[graph_index].built
    /\ heap[graph_index].all_files = <<A_md, B_md, C_md>>
    /\ heap[graph_index].exclude_paths = <<>>
    /\ vault[A_md] = Note(<< <<"B">> >>, <<>>)
    /\ vault[B_md] = Note(<< <<"A">> >>, <<>>)
    /\ vault[C_md] = Note(<<>>, <<>>)

\* a traversal with max_hops = 1, direction both and no filter, every file
\* being readable, that ended below max_nodes
OneHopTraversal ==
    /\ Traversed
    /\ last.args.max_hops = 1
    /\ last.args.direction = "both"
    /\ ~has_filters(last.args.config)
    /\ last.args.start_path \in Paths
    /\ \A p \in Paths : vault[p].kind = "str"
    /\ Len(result.nodes) < last.args.max_nodes

\* C16: such a traversal returns the start note and its forward links and
\* backlinks, nothing else, and no edge touches another note; in the
\* scenario, from A.md, it returns A.md and B.md and nothing of C.md
C16_OneHopNeighbours ==
    OneHopTraversal =>
        LET ix == heap[graph_index]
            start_path == last.args.start_path
        IN  /\ NodePaths = {start_path} \cup Neighbours(ix, start_path)
            /\ \A e \in Range(result.edges) : {e.from, e.to} \subseteq NodePaths
            /\ (ScenarioIndex /\ start_path = A_md) =>
                   /\ NodePaths = {A_md, B_md}
                   /\ \A e \in Range(result.edges) : C_md \notin {e.from, e.to}

\* the traversal of the scenario from A.md has returned
C16_Witness ==
    /\ OneHopTraversal
    /\ ScenarioIndex
    /\ last.args.start_path = A_md
    /\ Len(result.nodes) = 2

\* C17: every returned node passes the filter; an edge is reported only
\* from the expansion of a returned node, and every returned node but the
\* start was reached from a returned node, so nothing is reached through a
\* node that fails the filter; a start note that fails it gives no nodes
C17_FilteredNotExplored ==
    Traversed =>
        LET ix == heap[graph_index]
            config == last.args.config
            start_path == last.args.start_path
        IN  /\ \A n \in Nodes :
                   matches(config, n.path, get_metadata(ix, n.path))
            /\ \A e \in Range(result.edges) :
                   \E n \in Nodes :
                       /\ n.hop_distance < last.args.max_hops
                       /\ \/ e.from = n.path /\ e.to \in
                                 get_forward_links(ix, n.path)
                          \/ e.to = n.path /\ e.from \in
                                 get_backlinks(ix, n.path)
            /\ \A n \in Nodes :
                   n.path # start_path =>
                       \E m \in Nodes :
                           /\ m.hop_distance + 1 = n.hop_distance
                           /\ n.path \in Neighbours(ix, m.path)
            /\ ~matches(config, start_path, get_metadata(ix, start_path)) =>
                   (result.nodes = <<>> /\ result.edges = <<>>)

\* a traversal from A.md with max_hops = 2 whose filter rejects B.md has
\* left out a_b.md, a readable note that passes the filter and is linked
\* with B.md only
C17_Witness ==
    /\ Traversed
    /\ last.args.start_path = A_md
    /\ last.args.max_hops = 2
    /\ Len(result.nodes) < last.args.max_nodes
    /\ A_md \in NodePaths
    /\ B_md \in Neighbours(heap[graph_index], A_md)
    /\ vault[B_md].kind = "str"
    /\ ~matches(last.args.config, B_md, get_metadata(heap[graph_index], B_md))
    /\ ab_md \in Neighbours(heap[graph_index], B_md)
    /\ matches(last.args.config, ab_md,
               get_metadata(heap[graph_index], ab_md))
    /\ ab_md \notin NodePaths

\* C18: a traversal follows and reports forward links only when the
\* direction is outgoing, backlinks only when it is incoming, and both
\* when it is both: every returned node but the start was reached over a
\* link of the requested direction from a returned node one hop nearer,
\* and every edge was found that way
C18_HonoursDirection ==
    Traversed =>
        LET ix == heap[graph_index]
            forward == last.args.direction \in {"outgoing", "both"}
            backward == last.args.direction \in {"incoming", "both"}
        IN  /\ \A n \in Nodes :
                   n.path # last.args.start_path =>
                       \E m \in Nodes :
                           /\ m.hop_distance + 1 = n.hop_distance
                           /\ \/ forward /\ n.path \in
                                     get_forward_links(ix, m.path)
                              \/ backward /\ n.path \in
                                     get_backlinks(ix, m.path)
            /\ \A e \in Range(result.edges) :
                   \E m \in Nodes :
                       /\ m.hop_distance < last.args.max_hops
                       /\ \/ forward /\ e.from = m.path
                          \/ backward /\ e.to = m.path

\* the last call was graph_filter.matches
Matched == last.op = "matches"

\* C19: the verdict of matches is the conjunction of its five categories
\* (path, tags, front matter, created range, modified range), each
\* evaluated alone on the same path and metadata, whatever the order they
\* are taken in; and a category that is not configured passes
C19_MatchesIsConjunction ==
    Matched =>
        LET config == last.args.config
            path == last.args.path
            metadata == last.args.metadata
            by_path == check_path(config, path)
            by_tags == check_tags(config, Get(metadata, "tags", {}))
            by_frontmatter ==
                check_frontmatter(config, Get(metadata, "frontmatter", EmptyMap))
            by_created == DateInRange(Get(metadata, "created", None),
                                      config.created_after,
                                      config.created_before)
            by_modified == DateInRange(Get(metadata, "modified", None),
                                       config.modified_after,
                                       config.modified_before)
        IN  /\ last.value = (by_path /\ by_tags /\ by_frontmatter
                                 /\ by_created /\ by_modified)
            /\ last.value = (by_modified /\ by_created /\ by_frontmatter
                                 /\ by_tags /\ by_path)
            /\ (config.include_paths = <<>> /\ config.exclude_paths = <<>>)
                   => by_path
            /\ config.tags = <<>> => by_tags
            /\ DOMAIN config.frontmatter_filters = {} => by_frontmatter
            /\ (config.created_after = None /\ config.created_before = None)
                   => by_created
            /\ (config.modified_after = None /\ config.modified_before = None)
                   => by_modified

\* a filter with all five categories configured has rejected a note that
\* passes the path, tag, front-matter and created filters and fails the
\* modified range only
C19_Witness ==
    /\ Matched
    /\ last.value = FALSE
    /\ last.args.metadata # EmptyMap
    /\ last.args.config.include_paths # <<>>
    /\ last.args.config.tags # <<>>
    /\ DOMAIN last.args.config.frontmatter_filters # {}
    /\ last.args.config.created_after # None
    /\ last.args.config.modified_before # None
    /\ check_path(last.args.config, last.args.path)
    /\ check_tags(last.args.config, last.args.metadata.tags)
    /\ check_frontmatter(last.args.config, last.args.metadata.frontmatter)
    /\ DateInRange(last.args.metadata.created, last.args.config.created_after,
                   last.args.config.created_before)
    /\ ~DateInRange(last.args.metadata.modified,
                    last.args.config.modified_after,
                    last.args.config.modified_before)

\* two tags are the same up to case and leading '#'
SameTag(a, b) == Lower(LStripHash(a)) = Lower(LStripHash(b))

\* the filter of the last call has a tag filter and nothing else
TagsOnly ==
    /\ Matched
    /\ last.args.config.tags # <<>>
    /\ last.args.config = [NoFilter EXCEPT
                             !.tags = last.args.config.tags,
                             !.tags_match_all = last.args.config.tags_match_all]

\* C20: a tag filter compares tags without regard to case or a leading '#':
\* with tags_match_all false a note matches iff one of the configured tags
\* is among its tags, with tags_match_all true iff all of them are; so
\* tags = [project] without tags_match_all matches a note tagged
\* [project, urgent] and does not match a note tagged [urgent]
C20_TagsAnyOrAll ==
    TagsOnly =>
        LET config == last.args.config
            node_tags == Get(last.args.metadata, "tags", {})
            Present(i) == \E t \in node_tags : SameTag(config.tags[i], t)
        IN  /\ last.value = IF config.tags_match_all
                            THEN \A i \in 1..Len(config.tags) : Present(i)
                            ELSE \E i \in 1..Len(config.tags) : Present(i)
            /\ (config.tags = <<Project>> /\ ~config.tags_match_all) =>
                   /\ node_tags = {Project, Urgent} => last.value = TRUE
                   /\ node_tags = {Urgent} => last.value = FALSE

\* a filter with tags = [#Project] and tags_match_all false has matched a
\* note whose front matter has tags: [project, urgent]
C20_Witness ==
    /\ TagsOnly
    /\ last.args.config.tags = <<HashProject>>
    /\ ~last.args.config.tags_match_all
    /\ vault[last.args.path].fm_tags = <<Project, Urgent>>
    /\ last.args.metadata # EmptyMap
    /\ last.value = TRUE

\* C25: after a build the adjacency map, the metadata cache and the
\* PageRank table have the same keys, and every forward-link target and
\* every key of the reverse-adjacency map is one of them, also when files
\* of the list are unreadable
C25_EndpointsIndexed ==
    JustBuilt =>
        LET ix == heap[graph_index]
            indexed == DOMAIN ix.adjacency
        IN  /\ DOMAIN ix.metadata_cache = indexed
            /\ DOMAIN ix.pagerank_scores = indexed
            /\ \A p \in indexed : ix.adjacency[p] \subseteq indexed
            /\ DOMAIN ix.reverse_adj \subseteq indexed

\* the files of the list that a build with the given patterns indexes: the
\* markdown files that no pattern matches and whose content is a string
IndexedUnder(patterns, all_files) ==
    {p \in Range(MdFiles(set_exclude_paths(NewGraphIndex, patterns),
                         all_files).files) :
         p \in Paths /\ vault[p].kind = "str"}

\* C30: the exclusion patterns of the process-wide index are those of the
\* get_graph_index call that built it: a call that does not rebuild leaves
\* the index and its indexed files as they are, whatever patterns it
\* passes, and a call that rebuilds indexes by its own patterns only, so a
\* forced rebuild without patterns excludes nothing
C30_PatternsOfBuildingCall ==
    [][last'.op = "get_graph_index" =>
           IF last'.attempted
           THEN ~last'.raised =>
                    LET ix == heap'[graph_index']
                    IN  /\ ix.exclude_paths = last'.args[1]
                        /\ DOMAIN ix.adjacency =
                               IndexedUnder(last'.args[1], ix.all_files)
                        /\ last'.args[1] = <<>> =>
                               \A p \in Paths \cap Range(ix.all_files) :
                                   vault[p].kind = "str" =>
                                       p \in DOMAIN ix.adjacency
           ELSE /\ ~last'.force
                /\ graph_index' = graph_index
                /\ heap' = heap]_vars

\* a call without force_rebuild whose patterns exclude d/A.md has returned
\* the index that an earlier call built without patterns, d/A.md indexed
C30_Witness ==
    /\ last.op = "get_graph_index"
    /\ ~last.attempted
    /\ last.args[1] = << <<"d", "/", "*">> >>
    /\ heap[graph_index].exclude_paths = <<>>
    /\ heap[graph_index].built
    /\ dA_md \in DOMAIN heap[graph_index].adjacency

\* file_getter gives the text of the path
Readable(p) == p \in DOMAIN vault /\ vault[p].kind = "str"

\* the paths within k links of the start path, links taken in either
\* direction and followed from readable notes only
RECURSIVE ReachableThroughReadable(_, _, _)
ReachableThroughReadable(ix, start_path, k) ==
    IF k = 0 THEN {start_path}
    ELSE LET B == ReachableThroughReadable(ix, start_path, k - 1)
         IN  B \cup UNION {Neighbours(ix, p) : p \in {q \in B : Readable(q)}}

\* C23: a traversal skips a node whose content cannot be read and goes on
\* with the rest of the queue: no unreadable node is returned and, without
\* a filter and below max_nodes, the readable notes that are within
\* max_hops of the start over readable notes are all returned
C23_UnreadableNodeSkipped ==
    Traversed =>
        /\ \A n \in Nodes : Readable(n.path)
        /\ (~has_filters(last.args.config)
                /\ Len(result.nodes) < last.args.max_nodes) =>
               NodePaths =
                   {p \in ReachableThroughReadable(heap[graph_index],
                                                   last.args.start_path,
                                                   last.args.max_hops) :
                        Readable(p)}

\* a traversal has met an indexed neighbour of the start that can no longer
\* be read, and has returned a note two hops from the start
C23_Witness ==
    /\ Traversed
    /\ ~has_filters(last.args.config)
    /\ Len(result.nodes) < last.args.max_nodes
    /\ \E q \in Neighbours(heap[graph_index], last.args.start_path) :
           /\ ~Readable(q)
           /\ q \in DOMAIN heap[graph_index].adjacency
    /\ \E n \in Nodes : n.hop_distance = 2

\* C26: both endpoints of every edge of a traversal result are paths of
\* returned nodes
C26_EdgeEndpointsReturned ==
    Traversed =>
        \A e \in Range(result.edges) : {e.from, e.to} \subseteq NodePaths

\* C27: no (from, to) pair is in the edge list of a traversal twice
C27_NoDuplicateEdge ==
    Traversed =>
        \A i \in 1..Len(result.edges), j \in 1..Len(result.edges) :
            (i # j) =>
                <<result.edges[i].from, result.edges[i].to>> #
                    <<result.edges[j].from, result.edges[j].to>>

\* a traversal has returned a note that was enqueued twice, two of the
\* reported edges ending at it
C27_Witness ==
    /\ Traversed
    /\ \E n \in Nodes :
           \E i \in 1..Len(result.edges), j \in 1..Len(result.edges) :
               /\ i # j
               /\ result.edges[i].to = n.path
               /\ result.edges[j].to = n.path
               /\ result.edges[i].from # n.path
               /\ result.edges[j].from # n.path
               /\ result.edges[i].from # result.edges[j].from

\* the length of the shortest path from the start to p, at most max_hops
Dist(ix, start_path, p, max_hops) ==
    CHOOSE k \in 0..max_hops :
        /\ p \in Ball(ix, start_path, k)
        /\ k > 0 => p \notin Ball(ix, start_path, k - 1)

\* a traversal without filter from a note of a vault whose files are all
\* readable, that ended below max_nodes
PlainTraversal ==
    /\ Traversed
    /\ ~has_filters(last.args.config)
    /\ last.args.start_path \in Paths
    /\ \A p \in Paths : Readable(p)
    /\ Len(result.nodes) < last.args.max_nodes

\* C28: such a traversal returns every note within max_hops of the start,
\* each once, and the hop_distance of each is the length of the shortest
\* path from the start, links taken in both directions
C28_HopDistanceIsShortest ==
    PlainTraversal =>
        LET ix == heap[graph_index]
            start_path == last.args.start_path
            max_hops == last.args.max_hops
        IN  /\ NodePaths = Ball(ix, start_path, max_hops)
            /\ Cardinality(NodePaths) = Len(result.nodes)
            /\ \A n \in Nodes :
                   n.hop_distance = Dist(ix, start_path, n.path, max_hops)

\* such a traversal has returned, at hop 1, a note that was also enqueued
\* at hop 2, and another note at hop 2
C28_Witness ==
    /\ PlainTraversal
    /\ last.args.max_hops = 2
    /\ \E n \in Nodes, m \in Nodes :
           /\ n.hop_distance = 1
           /\ m.hop_distance = 1
           /\ n.path # m.path
           /\ n.path \in Neighbours(heap[graph_index], m.path)
    /\ \E n \in Nodes : n.hop_distance = 2

\* the last call was ranker.rank
Ranked == last.op = "rank"

\* the position of a node in the list that was handed to rank
GivenAt(n) == CHOOSE i \in 1..Len(last.args.nodes) :
                  last.args.nodes[i].path = n.path

\* the sort key of a returned node in the mode asked for, greater meaning
\* earlier
SortKey(n) ==
    CASE last.args.sort_by = "recency" -> n.recency_score
      [] last.args.sort_by = "pagerank" -> n.pagerank
      [] last.args.sort_by = "hop_distance" -> 0 - n.hop_distance
      [] OTHER -> n.combined_score

\* C21: rank returns the nodes by descending combined score for relevance
\* and for an unknown mode, by descending recency score for recency, by
\* descending PageRank for pagerank and by ascending hop distance for
\* hop_distance, nodes with equal keys in the order they were given in;
\* hop distances [2, 0, 1] come back as [0, 1, 2]
C21_SortedByMode ==
    Ranked =>
        LET out == last.value
        IN  /\ \A i \in 1..Len(out), j \in 1..Len(out) :
                   i < j =>
                       \/ SortKey(out[i]) > SortKey(out[j])
                       \/ /\ SortKey(out[i]) = SortKey(out[j])
                          /\ GivenAt(out[i]) < GivenAt(out[j])
            /\ (/\ last.args.sort_by = "hop_distance"
                /\ Len(last.args.nodes) = 3
                /\ \A i \in 1..3 :
                       last.args.nodes[i].hop_distance = <<2, 0, 1>>[i]) =>
                   \A i \in 1..3 : out[i].hop_distance = i - 1

\* rank has sorted by relevance three nodes of which the last two given
\* have the same combined score, greater than that of the first
C21_Witness ==
    /\ Ranked
    /\ last.args.sort_by = "relevance"
    /\ Len(last.value) = 3
    /\ last.value[1].combined_score = last.value[2].combined_score
    /\ last.value[2].combined_score > last.value[3].combined_score
    /\ GivenAt(last.value[3]) = 1

\* C29: rank returns the nodes it was given, each once and none else, each
\* with pagerank, recency_score, pagerank_normalized and combined_score;
\* pagerank_normalized is within [0, 1], and so is combined_score when
\* recency_weight is within [0, 1]
C29_RankKeepsNodes ==
    Ranked =>
        LET out == last.value
            given == last.args.nodes
        IN  /\ Len(out) = Len(given)
            /\ \A i \in 1..Len(given) :
                   Cardinality({j \in 1..Len(out) :
                                    /\ out[j].path = given[i].path
                                    /\ out[j].hop_distance = given[i].hop_distance
                                    /\ out[j].created = given[i].created}) = 1
            /\ \A j \in 1..Len(out) :
                   /\ {"pagerank", "recency_score", "pagerank_normalized",
                       "combined_score"} \subseteq DOMAIN out[j]
                   /\ out[j].pagerank =
                          Get(last.args.pagerank_scores, out[j].path, 0)
                   /\ 0 <= out[j].pagerank_normalized
                   /\ out[j].pagerank_normalized <= RankScale
                   /\ (0 <= last.args.config.recency_weight
                          /\ last.args.config.recency_weight <= RankScale) =>
                          /\ 0 <= out[j].combined_score
                          /\ out[j].combined_score <= RankScale

\* rank has returned three nodes in another order than they were given in,
\* PageRank scores differing, with both scores enabled
C29_Witness ==
    /\ Ranked
    /\ Len(last.value) = 3
    /\ last.args.config.enable_pagerank
    /\ last.args.config.enable_recency
    /\ last.args.config.recency_weight = DefaultRanking.recency_weight
    /\ GivenAt(last.value[1]) = 3
    /\ \E j \in 1..3 : last.value[j].pagerank_normalized = RankScale
    /\ \E j \in 1..3 : last.value[j].pagerank_normalized = 0

\* one synchronous iteration: for every node (1-alpha)/N + alpha * the sum
\* over its backlinks src of score[src] / outDegree(src), all read from the
\* scores of the iteration before
SyncStep(ix, scores) ==
    LET N == Cardinality(DOMAIN scores)
        Share(src) ==
            IF get_forward_links(ix, src) = {} THEN 0
            ELSE Get(scores, src, 0) \div Cardinality(get_forward_links(ix, src))
    IN  DictOver(DOMAIN scores, [node \in DOMAIN scores |->
            ((AlphaDen - AlphaNum) * Scale) \div (AlphaDen * N)
            + (AlphaNum * SetSum([src \in get_backlinks(ix, node) |-> Share(src)],
                                 get_backlinks(ix, node))) \div AlphaDen])

\* the total absolute change between two score tables
TotalChange(new, old) ==
    SetSum([node \in DOMAIN old |-> Abs(new[node] - old[node])], DOMAIN old)

\* synchronous iterations from the given scores until the total change is
\* below the tolerance or MaxIter iterations were made: the last scores and
\* the number of iterations made
RECURSIVE IterateSync(_, _, _)
IterateSync(ix, scores, made) ==
    IF made = MaxIter THEN [scores |-> scores, iterations |-> made]
    ELSE LET new == SyncStep(ix, scores)
         IN  IF TotalChange(new, scores) < Scale \div TolInv
             THEN [scores |-> new, iterations |-> made + 1]
             ELSE IterateSync(ix, new, made + 1)

\* the iteration from the uniform scores 1/N over the indexed nodes
FromUniform(ix) ==
    IterateSync(ix, [node \in DOMAIN ix.adjacency |->
                        Scale \div Cardinality(DOMAIN ix.adjacency)], 0)

\* C22: the PageRank scores of a built index are those of the synchronous
\* iteration from the uniform score 1/N, every new score computed from the
\* scores of the iteration before, stopped as soon as the total absolute
\* change is below the tolerance or after 100 iterations; an index without
\* nodes has an empty table
C22_SynchronousIteration ==
    JustBuilt =>
        LET ix == heap[graph_index]
        IN  IF DOMAIN ix.adjacency = {} THEN ix.pagerank_scores = EmptyMap
            ELSE /\ ix.pagerank_scores = FromUniform(ix).scores
                 /\ FromUniform(ix).iterations >= 1
                 /\ FromUniform(ix).iterations <= MaxIter

\* a build has ranked three or more nodes in more than two iterations, two
\* of the nodes linking to each other
C22_Witness ==
    /\ JustBuilt
    /\ Cardinality(DOMAIN heap[graph_index].adjacency) >= 3
    /\ FromUniform(heap[graph_index]).iterations > 2
    /\ \E p \in Paths, q \in Paths :
           /\ p # q
           /\ q \in get_forward_links(heap[graph_index], p)
           /\ p \in get_forward_links(heap[graph_index], q)

\* one of the patterns matches the path, as it is or under "*/"
HitBy(patterns, path) ==
    \E i \in 1..Len(patterns) :
        \/ fnmatch(path, patterns[i])
        \/ fnmatch(path, <<"*", "/">> \o patterns[i])

\* the filter of the last call has path patterns and nothing else
PathOnly ==
    /\ Matched
    /\ last.args.config =
           [NoFilter EXCEPT
              !.include_paths = last.args.config.include_paths,
              !.exclude_paths = last.args.config.exclude_paths]

\* C24: a path that an exclude pattern matches is rejected, also when an
\* include pattern matches it; with include patterns a path that none of
\* them matches is rejected; a pattern matches the whole path or the path
\* under an implicit "*/"; a path filter alone accepts every other path
C24_ExcludeWins ==
    Matched =>
        LET config == last.args.config
            path == last.args.path
        IN  /\ HitBy(config.exclude_paths, path) => last.value = FALSE
            /\ (config.include_paths # <<>>
                    /\ ~HitBy(config.include_paths, path)) => last.value = FALSE
            /\ PathOnly =>
                   (last.value = (/\ ~HitBy(config.exclude_paths, path)
                                  /\ \/ config.include_paths = <<>>
                                     \/ HitBy(config.include_paths, path)))

\* a path filter alone has rejected a_b.md, which the include pattern *.md
\* and the exclude pattern a* both match
C24_Witness ==
    /\ PathOnly
    /\ last.args.path = ab_md
    /\ HitBy(last.args.config.include_paths, ab_md)
    /\ HitBy(last.args.config.exclude_paths, ab_md)
    /\ last.value = FALSE

(***************************************************************************)
(* The same calls made by several threads at once.  get_graph_index and    *)
(* build take no lock: a thread runs them statement by statement, reading  *)
(* the module global again at each use.                                    *)
(***************************************************************************)

ConcVault ==
    [p \in Paths |->
        CASE p = A_md  -> Note(<< <<"B">> >>, <<>>)
          [] p = B_md  -> Note(<< <<"A">> >>, <<>>)
          [] p = C_md  -> Note(<<>>, <<>>)
          [] p = dA_md -> Note(<< <<"C">> >>, <<>>)
          [] p = ab_md -> Note(<<>>, <<>>)]

ConcListings == {<<A_md, B_md, C_md>>, <<dA_md, C_md>>}
ConcExcludes == {<<>>, << <<"C", "*">>, NonStr >>}

InitConc ==
    /\ vault = ConcVault
    /\ graph_index = 0
    /\ heap = EmptyMap
    /\ last = [op |-> "init", force |-> FALSE, attempted |-> FALSE,
               raised |-> FALSE, ever_built |-> FALSE, built_excl |-> <<>>,
               args |-> <<>>, value |-> <<>>]
    /\ result = NoResult
    /\ pc = Idle
    /\ loc = NoLocals

\* the objects some reference holds: the global and the threads' locals
Referenced(g, l) == ({g} \cup {l[t].self : t \in Threads}) \ {0}

\* the heap without the objects no reference holds
Live(h, g, l) == [id \in (DOMAIN h) \cap Referenced(g, l) |-> h[id]]

\* a thread calls get_graph_index(file_getter, all_files, exclude_paths,
\* force_rebuild)
Call(t, all_files, exclude_paths, force_rebuild) ==
    /\ pc[t] = "idle"
    /\ pc' = [pc EXCEPT ![t] = "check"]
    /\ loc' = [loc EXCEPT ![t] = [NoLocal EXCEPT
                                     !.all_files = all_files,
                                     !.exclude_paths = exclude_paths,
                                     !.force = force_rebuild]]
    /\ UNCHANGED <<vault, graph_index, heap, last, result>>

\* "if _graph_index is None or force_rebuild:"
Check(t) ==
    /\ pc[t] = "check"
    /\ pc' = [pc EXCEPT ![t] = IF graph_index = 0 \/ loc[t].force
                               THEN "create" ELSE "return"]
    /\ UNCHANGED <<vault, graph_index, heap, last, result, loc>>

\* "_graph_index = GraphIndex(file_getter)"
Create(t) ==
    /\ pc[t] = "create"
    /\ LET id == NewId(Referenced(graph_index, loc))
       IN  /\ graph_index' = id
           /\ heap' = Live((id :> NewGraphIndex) @@ heap, id, loc)
    /\ pc' = [pc EXCEPT ![t] = "set_exclude"]
    /\ UNCHANGED <<vault, last, result, loc>>

\* "if exclude_paths: _graph_index.set_exclude_paths(exclude_paths)"
SetExclude(t) ==
    /\ pc[t] = "set_exclude"
    /\ heap' = IF loc[t].exclude_paths # <<>>
               THEN [heap EXCEPT ![graph_index] =
                        set_exclude_paths(@, loc[t].exclude_paths)]
               ELSE heap
    /\ pc' = [pc EXCEPT ![t] = "call_build"]
    /\ UNCHANGED <<vault, graph_index, last, result, loc>>

\* "_graph_index.build(all_files)": self is what the global holds now
CallBuild(t) ==
    /\ pc[t] = "call_build"
    /\ loc' = [loc EXCEPT ![t].self = graph_index]
    /\ pc' = [pc EXCEPT ![t] = "reset"]
    /\ UNCHANGED <<vault, graph_index, heap, last, result>>

\* build: "Reset state"
Reset(t) ==
    /\ pc[t] = "reset"
    /\ heap' = [heap EXCEPT ![loc[t].self] = ResetState(@, loc[t].all_files)]
    /\ pc' = [pc EXCEPT ![t] = "filter"]
    /\ UNCHANGED <<vault, graph_index, last, result, loc>>

\* build: md_files and name_to_path; an exception of _should_index leaves
\* build and get_graph_index
FilterFiles(t) ==
    /\ pc[t] = "filter"
    /\ LET md == MdFiles(heap[loc[t].self], loc[t].all_files)
       IN  IF md.raised
           THEN /\ pc' = [pc EXCEPT ![t] = "idle"]
                /\ loc' = [loc EXCEPT ![t] = NoLocal]
                /\ heap' = Live(heap, graph_index, loc')
           ELSE /\ pc' = [pc EXCEPT ![t] = "file"]
                /\ loc' = [loc EXCEPT ![t].md_files = md.files,
                                      ![t].name_to_path =
                                          build_name_to_path_map(md.files),
                                      ![t].i = 1]
                /\ heap' = heap
    /\ UNCHANGED <<vault, graph_index, last, result>>

\* build: one iteration of "for file_path in md_files"
File(t) ==
    /\ pc[t] = "file"
    /\ loc[t].i <= Len(loc[t].md_files)
    /\ LET file_path == loc[t].md_files[loc[t].i]
       IN  heap' = [heap EXCEPT ![loc[t].self] =
                       ProcessFile(@, file_path, vault[file_path],
                                   loc[t].name_to_path)]
    /\ loc' = [loc EXCEPT ![t].i = @ + 1]
    /\ UNCHANGED <<vault, graph_index, last, result, pc>>

\* build: "self.compute_pagerank()" after the last file
Pagerank(t) ==
    /\ pc[t] = "file"
    /\ loc[t].i > Len(loc[t].md_files)
    /\ heap' = [heap EXCEPT ![loc[t].self] = compute_pagerank(@)]
    /\ pc' = [pc EXCEPT ![t] = "mark_built"]
    /\ UNCHANGED <<vault, graph_index, last, result, loc>>

\* build: "self._built = True"
MarkBuilt(t) ==
    /\ pc[t] = "mark_built"
    /\ heap' = [heap EXCEPT ![loc[t].self].built = TRUE]
    /\ pc' = [pc EXCEPT ![t] = "return"]
    /\ UNCHANGED <<vault, graph_index, last, result, loc>>

\* "return _graph_index": the caller holds what the global holds now
Return(t) ==
    /\ pc[t] = "return"
    /\ loc' = [loc EXCEPT ![t] = [NoLocal EXCEPT !.self = graph_index]]
    /\ pc' = [pc EXCEPT ![t] = "query"]
    /\ heap' = Live(heap, graph_index, loc')
    /\ UNCHANGED <<vault, graph_index, last, result>>

\* the caller queries the index it was given (get_backlinks,
\* get_forward_links, get_metadata, get_pagerank, a traversal) and is done
Query(t) ==
    /\ pc[t] = "query"
    /\ pc' = [pc EXCEPT ![t] = "idle"]
    /\ loc' = [loc EXCEPT ![t] = NoLocal]
    /\ heap' = Live(heap, graph_index, loc')
    /\ UNCHANGED <<vault, graph_index, last, result>>

NextConc ==
    \E t \in Threads :
        \/ \E f \in ConcListings, e \in ConcExcludes, force \in BOOLEAN :
               Call(t, f, e, force)
        \/ Check(t)
        \/ Create(t)
        \/ SetExclude(t)
        \/ CallBuild(t)
        \/ Reset(t)
        \/ FilterFiles(t)
        \/ File(t)
        \/ Pagerank(t)
        \/ MarkBuilt(t)
        \/ Return(t)
        \/ Query(t)

SpecConc == InitConc /\ [][NextConc]_vars

\* a thread is inside build on the instance id
Building(t, id) ==
    /\ pc[t] \in {"reset", "filter", "file", "mark_built"}
    /\ loc[t].self = id

\* C3: a query never observes an index that is not completely built: the
\* index a caller was given is marked built and no thread is building it
C3_QueriesSeeBuiltIndex ==
    \A t \in Threads :
        pc[t] = "query" =>
            /\ heap[loc[t].self].built
            /\ ~\E u \in Threads : Building(u, loc[t].self)

====
